---- MODULE Spec2Model ----
(***************************************************************************)
(* A model of the change-aware ingestion pipeline of covid19analysismx:    *)
(* provenance records (DataInfo), remote probes and downloads, archive     *)
(* extraction (DataManager), bulk loading (DBDataManager) and the command  *)
(* line handlers download-data and setup-db.                               *)
(*                                                                         *)
(* Text is modelled as sequences of one-character strings, a Python dict   *)
(* as a sequence of <<key, value>> pairs in insertion order, and an        *)
(* optional file as a sequence of length 0 (absent) or 1 (present).        *)
(***************************************************************************)
EXTENDS Integers, Sequences, FiniteSets, TLC

VARIABLES
    remote,     \* the two remote resources: status, HEAD/GET headers, body
    zips,       \* the local archives in DATA_DIR (primary "P", spec "S")
    infos,      \* the sidecar .json files next to the archives
    files,      \* the extracted files in DATA_DIR: name -> size in bytes
    database,   \* the database file at config.DATABASE
    out         \* what the last call did: its arguments, result and effects

vars == <<remote, zips, infos, files, database, out>>

----------------------------------------------------------------------------
(* Bounds of the model. *)

\* Longest Content-Length text (in digits) of the records that are compared.
MaxDigits == 2

\* File sizes and Content-Length values range over 1..MaxSize.
MaxSize == 2

\* Most members of an archive.
MaxMembers == 2

----------------------------------------------------------------------------
(* Optional values. *)

Absent == <<>>

Some(x) == <<x>>

Val(o) == o[1]

----------------------------------------------------------------------------
(* Text. *)

Digits == {"0", "1", "2", "3", "4", "5", "6", "7", "8", "9"}

DigitVal(c) ==
    CASE c = "0" -> 0 [] c = "1" -> 1 [] c = "2" -> 2 [] c = "3" -> 3
      [] c = "4" -> 4 [] c = "5" -> 5 [] c = "6" -> 6 [] c = "7" -> 7
      [] c = "8" -> 8 [] c = "9" -> 9

IsDecimal(s) == Len(s) > 0 /\ \A i \in 1..Len(s) : s[i] \in Digits

\* Python's int() on a text of decimal digits: leading zeros are allowed.
RECURSIVE ParseInt(_)
ParseInt(s) ==
    IF Len(s) = 0 THEN 0
    ELSE 10 * ParseInt(SubSeq(s, 1, Len(s) - 1)) + DigitVal(s[Len(s)])

\* The decimal text of a natural number, as str() gives it.
RECURSIVE ToText(_)
ToText(n) ==
    LET c == CHOOSE d \in Digits : DigitVal(d) = n % 10
    IN  IF n < 10 THEN <<c>> ELSE Append(ToText(n \div 10), c)

\* A number formatted to at least w digits with leading zeros ("%02d").
RECURSIVE ZeroPad(_, _)
ZeroPad(s, w) == IF Len(s) >= w THEN s ELSE ZeroPad(<<"0">> \o s, w)

\* str.lower() on the header names the model uses.
Lower(name) ==
    CASE name = "Content-Length" -> "content-length"
      [] name = "CONTENT-LENGTH" -> "content-length"
      [] name = "Accept-Ranges" -> "accept-ranges"
      [] OTHER -> name

----------------------------------------------------------------------------
(* Python dicts: sequences of <<key, value>> pairs with distinct keys. *)

HasKey(d, k) == \E i \in 1..Len(d) : d[i][1] = k

Get(d, k) == d[CHOOSE i \in 1..Len(d) : d[i][1] = k][2]

\* d[k] = v: an existing key keeps its place, a new key goes last.
Put(d, k, v) ==
    IF HasKey(d, k)
    THEN [i \in 1..Len(d) |-> IF d[i][1] = k THEN <<k, v>> ELSE d[i]]
    ELSE Append(d, <<k, v>>)

\* normalize_http_headers with the names left as they are.
normalize_keep_case(headers) == headers

RECURSIVE normalize_http_headers(_)
normalize_http_headers(headers) ==
    IF Len(headers) = 0 THEN <<>>
    ELSE LET last == headers[Len(headers)]
         IN  Put(normalize_http_headers(SubSeq(headers, 1, Len(headers) - 1)),
                 Lower(last[1]), last[2])

----------------------------------------------------------------------------
(* DataInfo. Each key of the info dict is Absent or present; http_headers   *)
(* is present when has_headers.                                            *)

DataInfo(name, date, has_headers, headers) ==
    [source_file_name |-> name, source_data_date |-> date,
     descriptors_file_name |-> Absent, catalogs_file_name |-> Absent,
     has_headers |-> has_headers, http_headers |-> headers]

\* The info dict extract_covid_data_spec builds.
SpecDataInfo(descriptors, catalogs, date, has_headers, headers) ==
    [source_file_name |-> Absent, source_data_date |-> date,
     descriptors_file_name |-> descriptors, catalogs_file_name |-> catalogs,
     has_headers |-> has_headers, http_headers |-> headers]

\* DataInfo.source_data_size: None, an int, or the error int() raises.
source_data_size(info) ==
    IF ~info.has_headers THEN [kind |-> "None", val |-> 0]
    ELSE IF ~HasKey(info.http_headers, "content-length")
         THEN [kind |-> "TypeError", val |-> 0]
    ELSE LET text == Get(info.http_headers, "content-length")
         IN  IF IsDecimal(text) THEN [kind |-> "int", val |-> ParseInt(text)]
             ELSE [kind |-> "ValueError", val |-> 0]

\* different_than comparing the header texts instead of the parsed sizes.
different_than_text(self, other) ==
    LET a == source_data_size(self)
        b == source_data_size(other)
    IN  IF a.kind \in {"TypeError", "ValueError"} THEN a.kind
        ELSE IF a.kind = "None" THEN "True"
        ELSE IF b.kind \in {"TypeError", "ValueError"} THEN b.kind
        ELSE IF b.kind = "None" THEN "True"
        ELSE IF Get(self.http_headers, "content-length")
                  # Get(other.http_headers, "content-length")
             THEN "True" ELSE "False"

\* DataInfo.different_than: "True", "False", or the error it raises.
different_than(self, other) ==
    LET a == source_data_size(self)
        b == source_data_size(other)
    IN  IF a.kind \in {"TypeError", "ValueError"} THEN a.kind
        ELSE IF a.kind = "None" THEN "True"
        ELSE IF b.kind \in {"TypeError", "ValueError"} THEN b.kind
        ELSE IF b.kind = "None" THEN "True"
        ELSE IF a.val # b.val THEN "True" ELSE "False"

----------------------------------------------------------------------------
(* File names: a text prefix followed by one of the fixed endings the code *)
(* tests with str.endswith.                                                *)

CSV_SUFFIX == "COVID19MEXICO.csv"

DESCRIPTORS_SUFFIX == "Descriptores_.xlsx"

CATALOGS_SUFFIX == "Catalogos.xlsx"

FileName(prefix, suffix) == [prefix |-> prefix, suffix |-> suffix]

\* file_name.endswith(ending)
EndsWith(name, ending) ==
    \/ name.suffix = ending
    \/ (ending = ".xlsx" /\ name.suffix \in {DESCRIPTORS_SUFFIX, CATALOGS_SUFFIX})

----------------------------------------------------------------------------
(* datetime.strptime(...).date() and date.isoformat().                     *)

DaysIn(month, year) ==
    IF month \in {4, 6, 9, 11} THEN 30
    ELSE IF month # 2 THEN 31
    ELSE IF year % 4 = 0 /\ (year % 100 # 0 \/ year % 400 = 0) THEN 29
    ELSE 28

\* The regular expressions strptime builds for %d, %m and %y, on digits.
MatchesDay(s) ==
    \/ /\ Len(s) = 2
       /\ \/ (s[1] = "3" /\ s[2] \in {"0", "1"})
          \/ s[1] \in {"1", "2"}
          \/ (s[1] = "0" /\ s[2] # "0")
    \/ (Len(s) = 1 /\ s[1] # "0")

MatchesMonth(s) ==
    \/ /\ Len(s) = 2
       /\ \/ (s[1] = "1" /\ s[2] \in {"0", "1", "2"})
          \/ (s[1] = "0" /\ s[2] # "0")
    \/ (Len(s) = 1 /\ s[1] # "0")

\* %y: 69..99 are 1969..1999, 00..68 are 2000..2068.
\* %y with every year put in the century of 2000.
YearOfThisCentury(s) == 2000 + ParseInt(s)

YearOf(s) == IF ParseInt(s) >= 69 THEN 1900 + ParseInt(s) ELSE 2000 + ParseInt(s)

ParseFailed == [ok |-> FALSE, year |-> 0, month |-> 0, day |-> 0]

MakeDate(y, m, d) ==
    IF d <= DaysIn(m, y) THEN [ok |-> TRUE, year |-> y, month |-> m, day |-> d]
    ELSE ParseFailed

\* The widths (first field, second field) the regular expression tries, the
\* two-digit alternative of each field first.
FieldWidths == << <<2, 2>>, <<2, 1>>, <<1, 2>>, <<1, 1>> >>

\* strptime(text, "%d%m%y"): day, month, two-digit year.
ParseDayMonthYear(s) ==
    LET fits(w) == /\ w[1] + w[2] + 2 = Len(s)
                   /\ MatchesDay(SubSeq(s, 1, w[1]))
                   /\ MatchesMonth(SubSeq(s, w[1] + 1, w[1] + w[2]))
        hits == {i \in 1..Len(FieldWidths) : fits(FieldWidths[i])}
    IN  IF ~(\A i \in 1..Len(s) : s[i] \in Digits) \/ hits = {} THEN ParseFailed
        ELSE LET w == FieldWidths[CHOOSE i \in hits : \A j \in hits : i <= j]
             IN  MakeDate(YearOf(SubSeq(s, w[1] + w[2] + 1, Len(s))),
                          ParseInt(SubSeq(s, w[1] + 1, w[1] + w[2])),
                          ParseInt(SubSeq(s, 1, w[1])))

\* strptime(text, "%y%m%d"): two-digit year, month, day.
ParseYearMonthDay(s) ==
    LET fits(w) == /\ 2 + w[1] + w[2] = Len(s)
                   /\ MatchesMonth(SubSeq(s, 3, 2 + w[1]))
                   /\ MatchesDay(SubSeq(s, 3 + w[1], 2 + w[1] + w[2]))
        hits == {i \in 1..Len(FieldWidths) : fits(FieldWidths[i])}
    IN  IF ~(\A i \in 1..Len(s) : s[i] \in Digits) \/ hits = {} THEN ParseFailed
        ELSE LET w == FieldWidths[CHOOSE i \in hits : \A j \in hits : i <= j]
             IN  MakeDate(YearOf(SubSeq(s, 1, 2)),
                          ParseInt(SubSeq(s, 3, 2 + w[1])),
                          ParseInt(SubSeq(s, 3 + w[1], Len(s))))

\* date.isoformat(): YYYY-MM-DD.
isoformat(date) ==
    ZeroPad(ToText(date.year), 4) \o <<"-">> \o ZeroPad(ToText(date.month), 2)
        \o <<"-">> \o ZeroPad(ToText(date.day), 2)

----------------------------------------------------------------------------
(* Archives: the members of a ZipFile in directory order, each with its    *)
(* name and declared (uncompressed) size.  A response is Absent or the     *)
(* header dict of a requests.Response.                                     *)

Member(name, size) == [name |-> name, file_size |-> size]

\* zip_file.extract(file_name, path=dest_dir): the file gets the member's size.
extract(fs, member) ==
    [n \in DOMAIN fs \cup {member.name} |->
        IF n = member.name THEN member.file_size ELSE fs[n]]

\* The extraction test without the size comparison: extract every time.
must_extract_always(fs, member) == TRUE

\* data.py:292-296: extract unless a file of the member's size is there.
must_extract(fs, member) ==
    \/ member.name \notin DOMAIN fs
    \/ member.file_size # fs[member.name]

\* The index of the last member ending with COVID19MEXICO.csv, 0 when there
\* is none: the loop without its break.
LastCsv(archive) ==
    LET hits == {i \in 1..Len(archive) : EndsWith(archive[i].name, CSV_SUFFIX)}
    IN  IF hits = {} THEN 0 ELSE CHOOSE i \in hits : \A j \in hits : i >= j

\* The index of the first member for which the loop of unzip_covid_data_csv
\* reaches its break, 0 when there is none.
FirstCsv(archive) ==
    LET hits == {i \in 1..Len(archive) : EndsWith(archive[i].name, CSV_SUFFIX)}
    IN  IF hits = {} THEN 0 ELSE CHOOSE i \in hits : \A j \in hits : i <= j

\* DataManager.unzip_covid_data_csv: the error raised or the path returned,
\* the files afterwards and the names written, in order.
unzip_covid_data_csv(fs, archive) ==
    IF Len(archive) = 0
    THEN [error |-> "KeyError", path |-> Absent, files |-> fs, wrote |-> <<>>]
    ELSE IF FirstCsv(archive) = 0
    THEN [error |-> "none", path |-> Some(archive[Len(archive)].name),
          files |-> fs, wrote |-> <<>>]
    ELSE LET member == archive[FirstCsv(archive)]
         IN  IF must_extract(fs, member)
             THEN [error |-> "none", path |-> Some(member.name),
                   files |-> extract(fs, member), wrote |-> <<member.name>>]
             ELSE [error |-> "none", path |-> Some(member.name),
                   files |-> fs, wrote |-> <<>>]

\* The http_headers entry of a new info dict: has_headers and the dict.
HeadersOf(response) ==
    IF response = Absent THEN <<FALSE, <<>> >>
    ELSE <<TRUE, normalize_http_headers(Val(response))>>

\* DataManager.covid_data_info: strptime on the whole file name.
covid_data_info(name, response) ==
    LET date == IF name.suffix = CSV_SUFFIX THEN ParseDayMonthYear(name.prefix)
                ELSE ParseFailed
    IN  IF ~date.ok THEN [error |-> "ValueError", info |-> Absent]
        ELSE [error |-> "none",
              info |-> Some(DataInfo(Some(name), Some(isoformat(date)),
                                     HeadersOf(response)[1], HeadersOf(response)[2]))]

\* The result of an operation on one archive and its sidecar: the error
\* raised ("none" when it returns), the info of the returned object, the
\* archive, sidecar and extracted files afterwards, the names written.
Outcome(error, info, zip, sidecar, fs, wrote) ==
    [error |-> error, info |-> info, zip |-> zip, sidecar |-> sidecar,
     files |-> fs, wrote |-> wrote]

\* An extraction that writes the sidecar only when it was given a response.
extract_covid_data_keeping_sidecar(zip, sidecar, fs, response) ==
    IF zip = Absent
    THEN Outcome("FileNotFoundError", Absent, zip, sidecar, fs, <<>>)
    ELSE LET unzipped == unzip_covid_data_csv(fs, Val(zip))
         IN  IF unzipped.error # "none"
             THEN Outcome(unzipped.error, Absent, zip, sidecar, fs, <<>>)
             ELSE LET made == covid_data_info(Val(unzipped.path), response)
                  IN  IF made.error # "none"
                      THEN Outcome(made.error, Absent, zip, sidecar,
                                   unzipped.files, unzipped.wrote)
                      ELSE Outcome("none", made.info, zip,
                                   IF response = Absent THEN sidecar ELSE made.info,
                                   unzipped.files, unzipped.wrote)

\* DataManager.extract_covid_data(path, response) on the archive at path
\* (Absent: no such file) with its sidecar and the extracted files.
extract_covid_data(zip, sidecar, fs, response) ==
    IF zip = Absent
    THEN Outcome("FileNotFoundError", Absent, zip, sidecar, fs, <<>>)
    ELSE LET unzipped == unzip_covid_data_csv(fs, Val(zip))
         IN  IF unzipped.error # "none"
             THEN Outcome(unzipped.error, Absent, zip, sidecar, fs, <<>>)
             ELSE LET made == covid_data_info(Val(unzipped.path), response)
                  IN  IF made.error # "none"
                      THEN Outcome(made.error, Absent, zip, sidecar,
                                   unzipped.files, unzipped.wrote)
                      ELSE Outcome("none", made.info, zip, made.info,
                                   unzipped.files, unzipped.wrote)

\* The loop with the first member of each ending kept, not the last.
RECURSIVE ExtractSpreadsheetsFirst(_, _, _)
ExtractSpreadsheetsFirst(fs, archive, n) ==
    IF n = 0
    THEN [files |-> fs, wrote |-> <<>>, descriptors |-> Absent, catalogs |-> Absent]
    ELSE LET before == ExtractSpreadsheetsFirst(fs, archive, n - 1)
             member == archive[n]
             write == must_extract(before.files, member)
         IN  IF ~EndsWith(member.name, ".xlsx") THEN before
             ELSE [files |-> IF write THEN extract(before.files, member)
                             ELSE before.files,
                   wrote |-> IF write THEN Append(before.wrote, member.name)
                             ELSE before.wrote,
                   descriptors |->
                       IF /\ EndsWith(member.name, DESCRIPTORS_SUFFIX)
                          /\ before.descriptors = Absent
                       THEN Some(member.name) ELSE before.descriptors,
                   catalogs |->
                       IF /\ ~EndsWith(member.name, DESCRIPTORS_SUFFIX)
                          /\ EndsWith(member.name, CATALOGS_SUFFIX)
                          /\ before.catalogs = Absent
                       THEN Some(member.name) ELSE before.catalogs]

\* The loop of extract_covid_data_spec over the first n members: the files,
\* the names written and the data_files dict.
RECURSIVE ExtractSpreadsheets(_, _, _)
ExtractSpreadsheets(fs, archive, n) ==
    IF n = 0
    THEN [files |-> fs, wrote |-> <<>>, descriptors |-> Absent, catalogs |-> Absent]
    ELSE LET before == ExtractSpreadsheets(fs, archive, n - 1)
             member == archive[n]
             write == must_extract(before.files, member)
         IN  IF ~EndsWith(member.name, ".xlsx") THEN before
             ELSE [files |-> IF write THEN extract(before.files, member)
                             ELSE before.files,
                   wrote |-> IF write THEN Append(before.wrote, member.name)
                             ELSE before.wrote,
                   descriptors |->
                       IF EndsWith(member.name, DESCRIPTORS_SUFFIX)
                       THEN Some(member.name) ELSE before.descriptors,
                   catalogs |->
                       IF /\ ~EndsWith(member.name, DESCRIPTORS_SUFFIX)
                          /\ EndsWith(member.name, CATALOGS_SUFFIX)
                       THEN Some(member.name) ELSE before.catalogs]

\* The text before the white space that "%y%m%d Descriptores_.xlsx" asks for.
RECURSIVE StripSpaces(_)
StripSpaces(s) ==
    IF Len(s) > 0 /\ s[Len(s)] = " " THEN StripSpaces(SubSeq(s, 1, Len(s) - 1))
    ELSE s

ParseDescriptorsName(name) ==
    IF /\ name.suffix = DESCRIPTORS_SUFFIX
       /\ Len(name.prefix) > 0
       /\ name.prefix[Len(name.prefix)] = " "
    THEN ParseYearMonthDay(StripSpaces(name.prefix))
    ELSE ParseFailed

\* DataManager.extract_covid_data_spec(path, response).
extract_covid_data_spec(zip, sidecar, fs, response) ==
    IF zip = Absent
    THEN Outcome("FileNotFoundError", Absent, zip, sidecar, fs, <<>>)
    ELSE LET got == ExtractSpreadsheets(fs, Val(zip), Len(Val(zip)))
         IN  IF got.descriptors = Absent \/ got.catalogs = Absent
             THEN Outcome("KeyError", Absent, zip, sidecar, got.files, got.wrote)
             ELSE LET date == ParseDescriptorsName(Val(got.descriptors))
                      info == SpecDataInfo(got.descriptors, got.catalogs,
                                           Some(isoformat(date)),
                                           HeadersOf(response)[1],
                                           HeadersOf(response)[2])
                  IN  IF ~date.ok
                      THEN Outcome("ValueError", Absent, zip, sidecar,
                                   got.files, got.wrote)
                      ELSE Outcome("none", Some(info), zip, Some(info),
                                   got.files, got.wrote)

----------------------------------------------------------------------------
(* The remote resources.  A publication is what the server holds at a URL: *)
(* the status it answers with, the headers of its HEAD and GET responses   *)
(* and the archive in the GET body.                                        *)

Publication(status, head, get, body) ==
    [status |-> status, head |-> head, get |-> get, body |-> body]

\* raise_for_status raising on no status at all.
raise_for_nothing(status) == "none"

\* response.raise_for_status()
raise_for_status(status) == IF status >= 400 THEN "HTTPError" ELSE "none"

\* The requests one download issues: requests.get is called once, and
\* raise_for_status ends the call after it.
get_requests(pub) == << [method |-> "GET", status |-> pub.status] >>

\* DataManager.remote_covid_data_info / remote_covid_data_spec_info, with the
\* response headers stored as they came.
remote_info_keep_case(pub) ==
    IF raise_for_status(pub.status) # "none"
    THEN [error |-> raise_for_status(pub.status), info |-> Absent]
    ELSE [error |-> "none",
          info |-> Some(DataInfo(Absent, Absent, TRUE, normalize_keep_case(pub.head)))]

\* DataManager.remote_covid_data_info / remote_covid_data_spec_info (the two
\* differ in the URL only).
remote_covid_data_info(pub) ==
    IF raise_for_status(pub.status) # "none"
    THEN [error |-> raise_for_status(pub.status), info |-> Absent]
    ELSE [error |-> "none",
          info |-> Some(DataInfo(Absent, Absent, TRUE, normalize_http_headers(pub.head)))]

\* DataManager.download_covid_data: GET, write the archive, extract, save.
download_covid_data(pub, zip, sidecar, fs) ==
    IF raise_for_status(pub.status) # "none"
    THEN Outcome(raise_for_status(pub.status), Absent, zip, sidecar, fs, <<>>)
    ELSE extract_covid_data(Some(pub.body), sidecar, fs, Some(pub.get))

\* DataManager.download_covid_data_spec
download_covid_data_spec(pub, zip, sidecar, fs) ==
    IF raise_for_status(pub.status) # "none"
    THEN Outcome(raise_for_status(pub.status), Absent, zip, sidecar, fs, <<>>)
    ELSE extract_covid_data_spec(Some(pub.body), sidecar, fs, Some(pub.get))

\* DataInfo.from_file on a sidecar DataInfo.save wrote.
from_file(stored) ==
    IF stored.has_headers
    THEN [stored EXCEPT !.http_headers = normalize_http_headers(@)]
    ELSE stored

----------------------------------------------------------------------------
(* The objects the model enumerates. *)

Bytes == <<"b", "y", "t", "e", "s">>

\* The primary CSV of a day of January 2021: 010121COVID19MEXICO.csv, ...
Csv(day) == FileName(ZeroPad(ToText(day), 2) \o <<"0", "1", "2", "1">>, CSV_SUFFIX)

CsvA == Csv(1)

\* 310221COVID19MEXICO.csv: the ending is right, the date is none.
CsvBad == FileName(<<"3", "1", "0", "2", "2", "1">>, CSV_SUFFIX)

Readme == FileName(<<"r", "e", "a", "d", "m", "e">>, ".txt")

\* "210101 Descriptores_.xlsx", "210101 Catalogos.xlsx", "notes.xlsx"
Descriptors == FileName(<<"2", "1", "0", "1", "0", "1", " ">>, DESCRIPTORS_SUFFIX)

Catalogs == FileName(<<"2", "1", "0", "1", "0", "1", " ">>, CATALOGS_SUFFIX)

Notes == FileName(<<"n", "o", "t", "e", "s">>, ".xlsx")

\* The headers a server sends for a body of n bytes.
StdHeaders(n) == << <<"Content-Length", ToText(n)>>, <<"Accept-Ranges", Bytes>> >>

\* Every archive of at most MaxMembers members with distinct names.
ArchivesOf(members) ==
    {a \in UNION {[1..k -> members] : k \in 0..MaxMembers} :
        \A i \in 1..Len(a), j \in 1..Len(a) : i # j => a[i].name # a[j].name}

\* Every text of 1..n of the digits 0, 1, 2: "1" and "01" are the same size.
DigitTexts(n) == UNION {[1..k -> {"0", "1", "2"}] : k \in 1..n}

\* The header dicts of the records DataInfo(...) is compared on.
InfoHeaderMaps ==
    {<<>>, << <<"accept-ranges", Bytes>> >>}
        \cup {<< <<n, t>> >> :
                 n \in {"content-length", "Content-Length"}, t \in DigitTexts(MaxDigits)}
        \cup {<< <<"content-length", t>>, <<"accept-ranges", Bytes>> >> :
                 t \in DigitTexts(MaxDigits)}

InfoUniverse ==
    LET named == {<<Absent, Absent>>,
                  <<Some(CsvA), Some(isoformat(ParseDayMonthYear(CsvA.prefix)))>>}
    IN  {DataInfo(nd[1], nd[2], FALSE, <<>>) : nd \in named}
            \cup {DataInfo(nd[1], nd[2], TRUE, h) : nd \in named, h \in InfoHeaderMaps}

----------------------------------------------------------------------------
(* The state before anything ran: nothing downloaded, no database. *)

NoFiles == [n \in {} |-> 0]

NoCall == [op |-> "none"]

BaseRemote ==
    [P |-> Publication(200, StdHeaders(1), StdHeaders(1), <<Member(CsvA, 1)>>),
     S |-> Publication(200, StdHeaders(1), StdHeaders(1),
                       <<Member(Descriptors, 1), Member(Catalogs, 1)>>)]

\* "P": the primary archive, "S": the spec archive, "L": an archive given
\* with --source-file.
NoArchives == [P |-> Absent, S |-> Absent, L |-> Absent]

InitBase ==
    /\ remote = BaseRemote
    /\ zips = NoArchives
    /\ infos = NoArchives
    /\ files = NoFiles
    /\ database = Absent
    /\ out = NoCall

----------------------------------------------------------------------------
(* Calls of DataInfo.different_than on two records. *)

\* The two records of a comparison that has not run yet.
Comparison(self, other) ==
    [op |-> "different_than", self |-> self, other |-> other, result |-> "pending"]

DifferentThanCall ==
    /\ out.op = "different_than"
    /\ out.result = "pending"
    /\ out' = [out EXCEPT !.result = different_than(out.self, out.other)]
    /\ UNCHANGED <<remote, zips, infos, files, database>>

\* out holds the result of a comparison.
Compared == out.op = "different_than" /\ out.result # "pending"

----------------------------------------------------------------------------
(* Calls of DataManager.unzip_covid_data_csv on the primary archive in     *)
(* DATA_DIR, which is replaced from time to time.                          *)

PrimaryMembers ==
    {Member(n, size) : n \in {CsvA, Csv(2)}, size \in 1..MaxSize}
        \cup {Member(Readme, 1)}

PrimaryArchives == ArchivesOf(PrimaryMembers)

\* The archive at zip_path is written anew (data.py:266-267).
ArchiveReplaced ==
    /\ \E a \in PrimaryArchives : zips' = [zips EXCEPT !.P = Some(a)]
    /\ zips' # zips
    /\ out' = [op |-> "archive_replaced"]
    /\ UNCHANGED <<remote, infos, files, database>>

\* unzip_covid_data_csv(ZipFile(zip_path)); again: the call before this one
\* was the same call, on the same archive and files.
UnzipCall ==
    /\ zips.P # Absent
    /\ LET done == unzip_covid_data_csv(files, Val(zips.P))
       IN  /\ files' = done.files
           /\ out' = [op |-> "unzip_covid_data_csv", error |-> done.error,
                      path |-> done.path, wrote |-> done.wrote,
                      again |-> out.op = "unzip_covid_data_csv"]
    /\ UNCHANGED <<remote, zips, infos, database>>

InitUnzip ==
    /\ remote = BaseRemote
    /\ zips \in {[NoArchives EXCEPT !.P = Some(a)] : a \in PrimaryArchives}
    /\ infos = NoArchives
    /\ files = NoFiles
    /\ database = Absent
    /\ out = NoCall

NextUnzip == ArchiveReplaced \/ UnzipCall

SpecUnzip == InitUnzip /\ [][NextUnzip]_vars

\* The archive holds a member whose name ends with COVID19MEXICO.csv.
HasCsv(archive) == \E i \in 1..Len(archive) : EndsWith(archive[i].name, CSV_SUFFIX)

\* The first such member.
TheCsv(archive) ==
    archive[CHOOSE i \in 1..Len(archive) :
               /\ EndsWith(archive[i].name, CSV_SUFFIX)
               /\ \A j \in 1..(i - 1) : ~EndsWith(archive[j].name, CSV_SUFFIX)]

Unzipped == out.op = "unzip_covid_data_csv"

\* C6: after every call of unzip_covid_data_csv on an archive with a primary
\* CSV member the destination file has the member's declared size, and a
\* second call on the unchanged archive writes no file.
C6_IdempotentExtraction ==
    (Unzipped /\ HasCsv(Val(zips.P)))
        => /\ out.error = "none"
           /\ TheCsv(Val(zips.P)).name \in DOMAIN files
           /\ files[TheCsv(Val(zips.P)).name] = TheCsv(Val(zips.P)).file_size
           /\ (out.again => out.wrote = <<>>)

\* C6 witness: a first call wrote the file, the second call has just
\* returned without writing, and the file has the member's size.
C6_Witness ==
    /\ Unzipped /\ out.again /\ out.error = "none" /\ out.wrote = <<>>
    /\ HasCsv(Val(zips.P))
    /\ out.path = Some(TheCsv(Val(zips.P)).name)
    /\ files[TheCsv(Val(zips.P)).name] = TheCsv(Val(zips.P)).file_size

\* C7: on an archive, empty or not, without a member ending with
\* COVID19MEXICO.csv the call raises KeyError, returns no path and extracts
\* nothing.
C7_NoMemberIsKeyError ==
    (Unzipped /\ ~HasCsv(Val(zips.P)))
        => (out.error = "KeyError" /\ out.path = Absent /\ out.wrote = <<>>)

----------------------------------------------------------------------------
(* Calls of DataManager.extract_covid_data_spec on the spec archive in     *)
(* DATA_DIR, which is replaced from time to time.                          *)

SpecMembers ==
    {Member(n, size) : n \in {Descriptors, Catalogs}, size \in 1..MaxSize}
        \cup {Member(Notes, 1)}

SpecArchives == ArchivesOf(SpecMembers)

\* The archive at zip_path is written anew (data.py:328-329).
SpecArchiveReplaced ==
    /\ \E a \in SpecArchives : zips' = [zips EXCEPT !.S = Some(a)]
    /\ zips' # zips
    /\ out' = [op |-> "archive_replaced"]
    /\ UNCHANGED <<remote, infos, files, database>>

\* extract_covid_data_spec(zip_path), as extract-catalogs calls it; saved:
\* the call wrote the sidecar.
ExtractSpecCall ==
    /\ LET done == extract_covid_data_spec(zips.S, infos.S, files, Absent)
       IN  /\ files' = done.files
           /\ infos' = [infos EXCEPT !.S = done.sidecar]
           /\ out' = [op |-> "extract_covid_data_spec", error |-> done.error,
                      info |-> done.info, wrote |-> done.wrote,
                      saved |-> done.error = "none"]
    /\ UNCHANGED <<remote, zips, database>>

InitExtractSpec ==
    /\ remote = BaseRemote
    /\ zips \in {[NoArchives EXCEPT !.S = Some(a)] : a \in SpecArchives}
    /\ infos = NoArchives
    /\ files = NoFiles
    /\ database = Absent
    /\ out = NoCall

NextExtractSpec == SpecArchiveReplaced \/ ExtractSpecCall

SpecExtractSpec == InitExtractSpec /\ [][NextExtractSpec]_vars

HasMember(archive, ending) ==
    \E i \in 1..Len(archive) : EndsWith(archive[i].name, ending)

\* C8: on a spec archive with only one of the descriptors and catalogs
\* spreadsheets, or neither, extract_covid_data_spec raises KeyError, writes
\* no sidecar and extracts no spreadsheet.
C8_SpecPairAllOrNothing ==
    (/\ out.op = "extract_covid_data_spec"
     /\ ~(HasMember(Val(zips.S), DESCRIPTORS_SUFFIX)
            /\ HasMember(Val(zips.S), CATALOGS_SUFFIX)))
        => (out.error = "KeyError" /\ ~out.saved /\ out.wrote = <<>>)

----------------------------------------------------------------------------
(* Probes and downloads of the two remote resources (the calls the tests   *)
(* make under a mocked server).  The server's publication does not change  *)
(* during a session.                                                       *)

\* Content-Length texts: the sizes, and "01", which is the size 1 again.
LengthTexts == {ToText(n) : n \in 1..MaxSize} \cup {<<"0">> \o ToText(1)}

\* Response headers: the length under a name in some letter case, or none.
FetchHeaders ==
    {<< <<n, t>>, <<"Accept-Ranges", Bytes>> >> :
        n \in {"Content-Length", "content-length", "CONTENT-LENGTH"},
        t \in LengthTexts}
        \cup {<< <<"Accept-Ranges", Bytes>> >>}

FetchBodies(k) ==
    IF k = "P" THEN {<<Member(CsvA, 1)>>, <<Member(CsvBad, 1)>>, <<>>}
    ELSE {<<Member(Descriptors, 1), Member(Catalogs, 1)>>,
          <<Member(Descriptors, 1)>>, <<>>}

FetchPublications(k) ==
    {Publication(st, h, g, b) :
        st \in {200, 404}, h \in FetchHeaders, g \in FetchHeaders, b \in FetchBodies(k)}

\* The probe the call before this one made of resource k, if it made one.
LastProbe(k) ==
    IF out.op \in {"remote_covid_data_info", "remote_covid_data_spec_info"}
       /\ out.k = k /\ out.error = "none"
    THEN out.info ELSE Absent

RemoteCovidDataInfoCall ==
    /\ LET got == remote_covid_data_info(remote.P)
       IN  out' = [op |-> "remote_covid_data_info", k |-> "P",
                   error |-> got.error, info |-> got.info]
    /\ UNCHANGED <<remote, zips, infos, files, database>>

RemoteCovidDataSpecInfoCall ==
    /\ LET got == remote_covid_data_info(remote.S)
       IN  out' = [op |-> "remote_covid_data_spec_info", k |-> "S",
                   error |-> got.error, info |-> got.info]
    /\ UNCHANGED <<remote, zips, infos, files, database>>

DownloadCovidDataCall ==
    /\ LET done == download_covid_data(remote.P, zips.P, infos.P, files)
       IN  /\ zips' = [zips EXCEPT !.P = done.zip]
           /\ infos' = [infos EXCEPT !.P = done.sidecar]
           /\ files' = done.files
           /\ out' = [op |-> "download_covid_data", k |-> "P",
                      error |-> done.error, info |-> done.info,
                      probe |-> LastProbe("P"),
                      requests |-> get_requests(remote.P)]
    /\ UNCHANGED <<remote, database>>

DownloadCovidDataSpecCall ==
    /\ LET done == download_covid_data_spec(remote.S, zips.S, infos.S, files)
       IN  /\ zips' = [zips EXCEPT !.S = done.zip]
           /\ infos' = [infos EXCEPT !.S = done.sidecar]
           /\ files' = done.files
           /\ out' = [op |-> "download_covid_data_spec", k |-> "S",
                      error |-> done.error, info |-> done.info,
                      probe |-> LastProbe("S"),
                      requests |-> get_requests(remote.S)]
    /\ UNCHANGED <<remote, database>>

InitFetch ==
    /\ remote \in {[BaseRemote EXCEPT !.P = pub] : pub \in FetchPublications("P")}
                    \cup {[BaseRemote EXCEPT !.S = pub] : pub \in FetchPublications("S")}
    /\ zips = NoArchives
    /\ infos = NoArchives
    /\ files = NoFiles
    /\ database = Absent
    /\ out = NoCall

NextFetch ==
    \/ RemoteCovidDataInfoCall
    \/ RemoteCovidDataSpecInfoCall
    \/ DownloadCovidDataCall
    \/ DownloadCovidDataSpecCall

SpecFetch == InitFetch /\ [][NextFetch]_vars

\* The response headers carry the Content-Length value t, under a name in
\* any letter case.
CarriesLength(headers, t) ==
    \E i \in 1..Len(headers) :
        Lower(headers[i][1]) = "content-length" /\ headers[i][2] = t

SameLength(pub) ==
    \E t \in LengthTexts : CarriesLength(pub.head, t) /\ CarriesLength(pub.get, t)

\* A download has just returned, right after a probe of the same URL.
DownloadedAfterProbe ==
    /\ out.op \in {"download_covid_data", "download_covid_data_spec"}
    /\ out.error = "none"
    /\ out.probe # Absent

\* C9: when the HEAD and the GET response of a URL carry the same
\* Content-Length value, under names in any letter case, the probe's record
\* is not different_than the record of the download; for the primary
\* dataset and for the spec archive.
C9_ProbeMatchesDownload ==
    (DownloadedAfterProbe /\ SameLength(remote[out.k]))
        => different_than(Val(out.probe), Val(out.info)) = "False"

\* C9 witness: the spec archive was probed and downloaded, the two
\* responses naming the same length in different letter cases.
C9_Witness ==
    /\ DownloadedAfterProbe
    /\ out.op = "download_covid_data_spec"
    /\ SameLength(remote.S)
    /\ remote.S.head[1][1] # remote.S.get[1][1]
    /\ different_than(Val(out.probe), Val(out.info)) = "False"

InitInfo ==
    /\ remote = BaseRemote
    /\ zips = NoArchives
    /\ infos = NoArchives
    /\ files = NoFiles
    /\ database = Absent
    /\ out \in {Comparison(a, b) : a \in InfoUniverse, b \in InfoUniverse}

NextInfo == DifferentThanCall

SpecInfo == InitInfo /\ [][NextInfo]_vars

\* A record whose size resolves: headers with a decimal content-length.
Resolvable(info) ==
    /\ info.has_headers
    /\ HasKey(info.http_headers, "content-length")
    /\ IsDecimal(Get(info.http_headers, "content-length"))

\* A record without headers, or with headers that hold no content-length.
LacksSize(info) ==
    \/ ~info.has_headers
    \/ ~HasKey(info.http_headers, "content-length")

\* C1: for two records that both have a resolvable size, different_than
\* returns True exactly when the sizes differ and False exactly when they
\* are equal, whatever the other fields hold.
C1_DifferentIffSizesDiffer ==
    (Compared /\ Resolvable(out.self) /\ Resolvable(out.other))
        => out.result =
              IF ParseInt(Get(out.self.http_headers, "content-length"))
                    = ParseInt(Get(out.other.http_headers, "content-length"))
              THEN "False" ELSE "True"

\* C1 witness: two records with different names, different header texts and
\* the same size were compared and found not different.
C1_Witness ==
    /\ Compared
    /\ Resolvable(out.self) /\ Resolvable(out.other)
    /\ out.self.source_file_name # out.other.source_file_name
    /\ out.self.http_headers # out.other.http_headers
    /\ Get(out.self.http_headers, "content-length")
          # Get(out.other.http_headers, "content-length")
    /\ out.result = "False"

\* C2: when either record lacks a resolvable size (no headers, or headers
\* without a content-length), different_than returns True in both orders
\* and raises nothing.
C2_MissingSizeIsDifferent ==
    (Compared /\ (LacksSize(out.self) \/ LacksSize(out.other)))
        => out.result = "True"

----------------------------------------------------------------------------
(* The server between two commands: a new publication of one resource.     *)

\* The archive the server holds for resource k when its size is n.
Body(k, n) ==
    IF k = "P" THEN <<Member(Csv(n), n)>>
    ELSE <<Member(Descriptors, n), Member(Catalogs, n)>>

\* The headers of its responses: with the length, or without it.
Announced(n, with_length) ==
    IF with_length THEN StdHeaders(n) ELSE << <<"Accept-Ranges", Bytes>> >>

RemotePublish(k) ==
    /\ \E st \in {200, 404}, n \in 1..MaxSize, with_length \in BOOLEAN :
          remote' = [remote EXCEPT
                        ![k] = Publication(st, Announced(n, with_length),
                                           Announced(n, with_length), Body(k, n))]
    /\ out' = NoCall
    /\ UNCHANGED <<zips, infos, files, database>>

----------------------------------------------------------------------------
(* download-data: cli.download_data.                                       *)

\* DataManager.covid_data_differ: the sidecar of the local archive against
\* a probe of the remote one.  "True", "False" or the name of the error.
covid_data_differ(sidecar, pub) ==
    LET probed == remote_covid_data_info(pub)
    IN  IF probed.error # "none" THEN probed.error
        ELSE IF sidecar = Absent THEN "True"
        ELSE different_than(from_file(Val(sidecar)), Val(probed.info))

\* DataManager.covid_data_specs_differ: the same for the spec archive.
covid_data_specs_differ(sidecar, pub) ==
    LET probed == remote_covid_data_info(pub)
    IN  IF probed.error # "none" THEN probed.error
        ELSE IF sidecar = Absent THEN "True"
        ELSE different_than(from_file(Val(sidecar)), Val(probed.info))

\* The test of download_data with the comparison ignored.
must_download_always(force, differ) == "True"

\* "force or manager.covid_data_differ()": "True", "False" or the name of
\* the error the comparison raised.
must_download(force, differ) == IF force THEN "True" ELSE differ

\* One of the two steps of download_data, decided by asked; done is the
\* outcome of the download, were it made.
DownloadStep(asked, done, zip, sidecar, fs) ==
    IF asked = "True" THEN done
    ELSE IF asked = "False" THEN Outcome("none", Absent, zip, sidecar, fs, <<>>)
    ELSE Outcome(asked, Absent, zip, sidecar, fs, <<>>)

DownloadData(force) ==
    LET askS  == must_download(force, covid_data_specs_differ(infos.S, remote.S))
        doneS == DownloadStep(askS,
                              download_covid_data_spec(remote.S, zips.S, infos.S, files),
                              zips.S, infos.S, files)
        reached == doneS.error = "none"
        askP  == must_download(force, covid_data_differ(infos.P, remote.P))
        doneP == IF ~reached
                 THEN Outcome("unreached", Absent, zips.P, infos.P, doneS.files, <<>>)
                 ELSE DownloadStep(askP,
                                   download_covid_data(remote.P, zips.P, infos.P,
                                                       doneS.files),
                                   zips.P, infos.P, doneS.files)
    IN  /\ zips' = [zips EXCEPT !.S = doneS.zip, !.P = doneP.zip]
        /\ infos' = [infos EXCEPT !.S = doneS.sidecar, !.P = doneP.sidecar]
        /\ files' = doneP.files
        /\ out' = [op |-> "download_data", force |-> force,
                   error |-> [S |-> doneS.error, P |-> doneP.error],
                   fetched |-> {k \in {"S"} : askS = "True"}
                                 \cup {k \in {"P"} : reached /\ askP = "True"},
                   wrote |-> [S |-> doneS.wrote, P |-> doneP.wrote],
                   before |-> [zips |-> zips, infos |-> infos]]
        /\ UNCHANGED <<remote, database>>

InitDownloadData == InitBase

NextDownloadData ==
    \/ \E k \in {"P", "S"} : RemotePublish(k)
    \/ \E force \in BOOLEAN : DownloadData(force)

SpecDownloadData == InitDownloadData /\ [][NextDownloadData]_vars

\* Before the command ran, the local record of archive k was not
\* different_than what a probe of the server returns.
NotDifferent(k) ==
    /\ out.before.infos[k] # Absent
    /\ remote_covid_data_info(remote[k]).error = "none"
    /\ different_than(from_file(Val(out.before.infos[k])),
                      Val(remote_covid_data_info(remote[k]).info)) = "False"

\* Every member of the archive is in the data directory, with its size.
Extracted(archive) ==
    \A i \in 1..Len(archive) :
        /\ archive[i].name \in DOMAIN files
        /\ files[archive[i].name] = archive[i].file_size

\* C10: without --force, download-data does not download an archive whose
\* local record is not different_than the remote probe, and writes no file
\* for it; with --force it downloads and extracts each archive whatever the
\* comparison would say (the primary one once the spec step has returned).
C10_ChangeAwareDownload ==
    out.op = "download_data" =>
        /\ ~out.force =>
              \A k \in {"S", "P"} :
                  NotDifferent(k) =>
                      /\ k \notin out.fetched
                      /\ out.wrote[k] = <<>>
                      /\ zips[k] = out.before.zips[k]
                      /\ infos[k] = out.before.infos[k]
        /\ out.force =>
              /\ "S" \in out.fetched
              /\ out.error.S = "none" => "P" \in out.fetched
              /\ \A k \in out.fetched :
                    /\ remote[k].status = 200 => zips[k] = Some(remote[k].body)
                    /\ out.error[k] = "none" => Extracted(remote[k].body)

\* C10 witness: a run without --force fetched the spec archive, which had
\* changed, and left the primary one, which had not.
C10_Witness ==
    /\ out.op = "download_data"
    /\ ~out.force
    /\ NotDifferent("P")
    /\ out.fetched = {"S"}
    /\ out.wrote.P = <<>>
    /\ zips.P = out.before.zips.P
    /\ out.wrote.S # <<>>

----------------------------------------------------------------------------
(* The catalogs directory and the system database.                         *)

\* config.CATALOGS_DIR, and a file of it by its stem and suffix.
CATALOGS_DIR == [dir |-> "catalogs"]

CatalogFile(stem, suffix) == [dir |-> "catalogs", stem |-> stem, suffix |-> suffix]

\* sexo_cat.csv, sector_cat.csv, resultado_cat.csv, ORIGEN_cat.csv, notes.txt
SexoCat == CatalogFile(<<"s", "e", "x", "o", "_", "c", "a", "t">>, ".csv")

SectorCat == CatalogFile(<<"s", "e", "c", "t", "o", "r", "_", "c", "a", "t">>, ".csv")

ResultadoCat ==
    CatalogFile(<<"r", "e", "s", "u", "l", "t", "a", "d", "o", "_", "c", "a", "t">>, ".csv")

OrigenCat == CatalogFile(<<"O", "R", "I", "G", "E", "N", "_", "c", "a", "t">>, ".csv")

CatalogNotes == CatalogFile(<<"n", "o", "t", "e", "s">>, ".txt")

\* str.lower on the letters of the catalog names.
LowerChar(c) ==
    CASE c = "O" -> "o"
      [] c = "R" -> "r"
      [] c = "I" -> "i"
      [] c = "G" -> "g"
      [] c = "E" -> "e"
      [] c = "N" -> "n"
      [] OTHER -> c

LowerText(s) == [i \in 1..Len(s) |-> LowerChar(s[i])]

\* DataManager.catalogs with the stem taken as it is written.
catalogs_keep_case(fs) ==
    IF CATALOGS_DIR \notin DOMAIN fs
    THEN [error |-> "FileNotFoundError", pairs |-> {}]
    ELSE [error |-> "none",
          pairs |-> {<<f.stem, f>> :
                        f \in {g \in DOMAIN fs \ {CATALOGS_DIR} :
                                  "dir" \in DOMAIN g /\ g.suffix = ".csv"}}]

\* DataManager.catalogs: the (table name, path) pairs of the .csv files of
\* CATALOGS_DIR; iterdir raises when the directory is missing.
catalogs(fs) ==
    IF CATALOGS_DIR \notin DOMAIN fs
    THEN [error |-> "FileNotFoundError", pairs |-> {}]
    ELSE [error |-> "none",
          pairs |-> {<<LowerText(f.stem), f>> :
                        f \in {g \in DOMAIN fs \ {CATALOGS_DIR} :
                                  "dir" \in DOMAIN g /\ g.suffix = ".csv"}}]

\* A database file duckdb.connect has just created: no tables.
EmptyDatabase == [covid_cases |-> Absent, catalogs |-> {}]

\* duckdb.connect(db_name): opens the file, creating it when missing.
connect(db) == IF db = Absent THEN Some(EmptyDatabase) ELSE db

\* CREATE OR REPLACE TABLE in the place of CREATE TABLE.
create_or_replace_table(db) ==
    [error |-> "none", db |-> [db EXCEPT !.covid_cases = Some(<<>>)]]

\* DBDataManager.create_covid_cases_table: CREATE TABLE, no IF NOT EXISTS.
create_covid_cases_table(db) ==
    IF db.covid_cases # Absent THEN [error |-> "CatalogException", db |-> db]
    ELSE [error |-> "none", db |-> [db EXCEPT !.covid_cases = Some(<<>>)]]

\* DBDataManager.save_covid_data: COPY table FROM data.path; rejected is
\* the error of the engine on the rows of the file, "none" when it takes
\* them.
save_covid_data(db, data_path, fs, rejected) ==
    IF db.covid_cases = Absent THEN [error |-> "CatalogException", db |-> db]
    ELSE IF data_path \notin DOMAIN fs THEN [error |-> "IOException", db |-> db]
    ELSE IF rejected # "none" THEN [error |-> rejected, db |-> db]
    ELSE [error |-> "none",
          db |-> [db EXCEPT !.covid_cases = Some(Append(Val(@), data_path))]]

\* The frame pd.read_csv(path) returns: the rows of the file, which the
\* model keeps as their number.
read_csv(fs, path) == [count |-> fs[path]]

\* DBDataManager.save_catalog with the DROP TABLE left out: the new rows are
\* added to the tables of the name.
save_catalog_merge(db, name, path, fs, unregistered) ==
    IF path \notin DOMAIN fs THEN [error |-> "FileNotFoundError", db |-> db]
    ELSE IF unregistered # "none" THEN [error |-> unregistered, db |-> db]
    ELSE [error |-> "none",
          db |-> [db EXCEPT !.catalogs = @ \cup {<<name, read_csv(fs, path)>>}]]

\* 2021_cat.csv: its stem is no SQL identifier.
DatedCat == CatalogFile(<<"2", "0", "2", "1", "_", "c", "a", "t">>, ".csv")

\* The name can stand unquoted in DROP TABLE IF EXISTS {name}: the engine
\* parses the whole query before it runs any statement of it.
IsIdentifier(name) == Len(name) > 0 /\ name[1] \notin Digits

\* DBDataManager.save_catalog: read the CSV, register it as cat_data_view,
\* unregister the view, then DROP TABLE IF EXISTS name; CREATE TABLE name
\* AS SELECT * FROM cat_data_view.  The view is unregistered before the query
\* runs: unregistered is the error of the SELECT when the engine has
\* dropped the view by then, "none" when the view is still there.
save_catalog(db, name, path, fs, unregistered) ==
    IF path \notin DOMAIN fs THEN [error |-> "FileNotFoundError", db |-> db]
    ELSE IF ~IsIdentifier(name) THEN [error |-> "ParserException", db |-> db]
    ELSE LET dropped == [db EXCEPT !.catalogs = {c \in @ : c[1] # name}]
         IN  IF unregistered # "none" THEN [error |-> unregistered, db |-> dropped]
             ELSE [error |-> "none",
                   db |-> [dropped EXCEPT
                              !.catalogs = @ \cup {<<name, read_csv(fs, path)>>}]]

\* The orders in which iterdir may list the pairs of catalogs().
Listings(pairs) ==
    {l \in [1..Cardinality(pairs) -> pairs] :
        \A i, j \in 1..Cardinality(pairs) : i # j => l[i] # l[j]}

\* save_catalogs going on after a failure, which it raises at the end.
RECURSIVE save_catalogs_through(_, _, _, _)
save_catalogs_through(db, listing, fs, unregistered) ==
    IF listing = <<>> THEN [error |-> "none", db |-> db]
    ELSE LET saved == save_catalog(db, Head(listing)[1], Head(listing)[2],
                                   fs, unregistered)
             rest == save_catalogs_through(saved.db, Tail(listing), fs, unregistered)
         IN  IF saved.error # "none" THEN [error |-> saved.error, db |-> rest.db]
             ELSE rest

\* DBDataManager.save_catalogs on the pairs in the order listed; it stops at
\* the first error.
RECURSIVE save_catalogs(_, _, _, _)
save_catalogs(db, listing, fs, unregistered) ==
    IF listing = <<>> THEN [error |-> "none", db |-> db]
    ELSE LET saved == save_catalog(db, Head(listing)[1], Head(listing)[2],
                                   fs, unregistered)
         IN  IF saved.error # "none" THEN saved
             ELSE save_catalogs(saved.db, Tail(listing), fs, unregistered)

----------------------------------------------------------------------------
(* setup-db: cli.setup_database.                                           *)

\* The state a run of setup_database leaves, the error it raised and the
\* calls on the database it made, in order; the call that raised is the
\* last one.
SetupResult(error, db, sidecar, fs, calls) ==
    [error |-> error, database |-> db, sidecar |-> sidecar, files |-> fs,
     calls |-> calls]

\* The last statements of setup_database: save_catalogs(manager.catalogs()),
\* the directory listed in the order of listing.
SaveCatalogsStep(db, sidecar, fs, calls, unregistered, listing) ==
    IF catalogs(fs).error # "none"
    THEN SetupResult(catalogs(fs).error, Some(db), sidecar, fs,
                     Append(calls, "catalogs"))
    ELSE LET saved == save_catalogs(db, listing, fs, unregistered)
         IN  SetupResult(saved.error, Some(saved.db), sidecar, fs,
                         IF listing = <<>> THEN Append(calls, "catalogs")
                         ELSE calls \o <<"catalogs", "save_catalog">>)

\* The statements under "if not skip_cases" and what follows them, the
\* catalogs saved whatever the bulk load did.
SaveCasesStepThrough(db, zip, sidecar, fs, rejected, unregistered, listing) ==
    LET data == extract_covid_data(zip, sidecar, fs, Absent)
    IN  IF data.error # "none"
        THEN SetupResult(data.error, Some(db), data.sidecar, data.files,
                         <<"extract_covid_data">>)
        ELSE LET created == create_covid_cases_table(db)
                 copied == save_covid_data(created.db,
                                           Val(Val(data.info).source_file_name),
                                           data.files, rejected)
             IN  SaveCatalogsStep(copied.db, data.sidecar, data.files,
                                  <<"extract_covid_data", "create_covid_cases_table",
                                    "save_covid_data">>,
                                  unregistered, listing)

\* The statements under "if not skip_cases" and what follows them.
SaveCasesStep(db, zip, sidecar, fs, rejected, unregistered, listing) ==
    LET data == extract_covid_data(zip, sidecar, fs, Absent)
    IN  IF data.error # "none"
        THEN SetupResult(data.error, Some(db), data.sidecar, data.files,
                         <<"extract_covid_data">>)
        ELSE LET created == create_covid_cases_table(db)
                 copied == save_covid_data(created.db,
                                           Val(Val(data.info).source_file_name),
                                           data.files, rejected)
             IN  IF created.error # "none"
                 THEN SetupResult(created.error, Some(created.db),
                                  data.sidecar, data.files,
                                  <<"extract_covid_data", "create_covid_cases_table">>)
                 ELSE IF copied.error # "none"
                 THEN SetupResult(copied.error, Some(copied.db),
                                  data.sidecar, data.files,
                                  <<"extract_covid_data", "create_covid_cases_table",
                                    "save_covid_data">>)
                 ELSE SaveCatalogsStep(copied.db, data.sidecar, data.files,
                                       <<"extract_covid_data", "create_covid_cases_table",
                                         "save_covid_data">>,
                                       unregistered, listing)

\* setup_database(source_data, skip_cases) on the archive and sidecar of
\* the source and the database file.
setup_database(db, zip, sidecar, fs, skip_cases, rejected, unregistered, listing) ==
    LET unlinked == IF db # Absent THEN Absent ELSE db
        opened == Val(connect(unlinked))
    IN  IF skip_cases
        THEN SaveCatalogsStep(opened, sidecar, fs, <<>>, unregistered, listing)
        ELSE SaveCasesStep(opened, zip, sidecar, fs, rejected, unregistered, listing)

SetupDatabase(source, skip_cases, rejected, unregistered) ==
    \E listing \in Listings(catalogs(files).pairs) :
        \E ran \in {setup_database(database, zips[source], infos[source], files,
                                   skip_cases, rejected, unregistered, listing)} :
            /\ database' = ran.database
            /\ infos' = [infos EXCEPT ![source] = ran.sidecar]
            /\ files' = ran.files
            /\ out' = [op |-> "setup_database", source |-> source,
                       skip_cases |-> skip_cases, error |-> ran.error,
                       calls |-> ran.calls,
                       unlinked |-> database # Absent,
                       before |-> [database |-> database, sidecar |-> infos[source]]]
            /\ UNCHANGED <<remote, zips>>

\* The rows of the catalog files at the start.
CatalogRows(f) == IF f \in {SexoCat, OrigenCat} THEN 2 ELSE IF f = CATALOGS_DIR THEN 0 ELSE 1

\* The catalogs directory at the start: missing, or with some files.
CatalogDirs ==
    {NoFiles} \cup
    {[f \in {CATALOGS_DIR} \cup fs |-> CatalogRows(f)] :
        fs \in {{SexoCat, SectorCat, ResultadoCat}, {OrigenCat, CatalogNotes}}}

\* The archive given with --source-file.
SourceFile == <<Member(Csv(MaxSize + 1), 1)>>

InitSetupDb ==
    /\ remote = BaseRemote
    /\ zips = [NoArchives EXCEPT !.L = Some(SourceFile)]
    /\ infos = NoArchives
    /\ files \in CatalogDirs
    /\ database = Absent
    /\ out = NoCall

NextSetupDb ==
    \/ DownloadCovidDataCall
    \/ \E source \in {"P", "L"}, skip_cases \in BOOLEAN,
          rejected \in {"none", "ConversionException"},
          unregistered \in {"none", "CatalogException"} :
              SetupDatabase(source, skip_cases, rejected, unregistered)

SpecSetupDb == InitSetupDb /\ [][NextSetupDb]_vars

\* setup-db has just run on the downloaded archive, with a database file
\* in place.
SetupRanOnDatabase ==
    /\ out.op = "setup_database"
    /\ out.source = "P"
    /\ out.before.database # Absent

\* The sidecar R0 the run found is not different_than the record R1 a probe
\* of the server returns.
SidecarMatchesProbe ==
    /\ out.before.sidecar # Absent
    /\ remote_covid_data_info(remote.P).error = "none"
    /\ different_than(from_file(Val(out.before.sidecar)),
                      Val(remote_covid_data_info(remote.P).info)) = "False"

\* C3: when the sidecar record R0 is not different_than the probed record
\* R1, setup-db neither deletes or renames the current database file nor
\* changes the database.
C3_RotationSafety ==
    (SetupRanOnDatabase /\ SidecarMatchesProbe)
        => (~out.unlinked /\ database = out.before.database)

\* C4: setup-db never deletes a database file whose data has a sidecar;
\* the file is still on disk after the run.
C4_PreviousDatabaseKept ==
    (/\ out.op = "setup_database"
     /\ out.before.database # Absent
     /\ out.before.sidecar # Absent)
        => ~out.unlinked

\* C5: when setup-db fails, at the table creation, the bulk load, a catalog
\* load or before them, the sidecar on disk still holds the record it held
\* before the run.
C5_SidecarWrittenLast ==
    (/\ out.op = "setup_database"
     /\ out.error # "none"
     /\ out.before.sidecar # Absent)
        => infos[out.source] = out.before.sidecar

----------------------------------------------------------------------------
(* COVIDData.chunks: the generator over the batches of the primary CSV.    *)

\* COVIDData.default_chunk_size
default_chunk_size == 32768

\* The most data rows of a CSV, and the greatest batch size asked for.
MaxRows == 5

MaxChunk == 3

\* A default batch of one row.
chunk_size_of_one(size) ==
    IF size = Absent \/ Val(size) = 0 THEN 1 ELSE Val(size)

\* "size or self.default_chunk_size": None and 0 give the default.
chunk_size(size) ==
    IF size = Absent \/ Val(size) = 0 THEN default_chunk_size ELSE Val(size)

\* The next chunk of the reader pd.read_csv(path, iterator=True,
\* chunksize=size) returned: a frame of the next rows; a frame of no rows
\* when the very first read finds none; StopIteration afterwards.
get_chunk(rows, pos, first, size) ==
    IF pos < rows
    THEN [kind |-> "frame", count |-> IF rows - pos < size THEN rows - pos ELSE size]
    ELSE IF first THEN [kind |-> "frame", count |-> 0]
    ELSE [kind |-> "StopIteration", count |-> 0]

\* COVIDData._fix(chunk_df): the .dt accessor of the four date columns.  On
\* a frame of no rows the columns may hold no dates: no_dates is the error
\* the accessor raises then, "none" when it raises nothing.
fix(frame, no_dates) ==
    IF frame.count = 0 THEN no_dates ELSE "none"

\* The generator object chunks(size) returns, before its first next().
Generator(path, rows, size) ==
    [op |-> "chunks", path |-> path, rows |-> rows, size |-> size,
     state |-> "created", pos |-> 0, batches |-> <<>>]

\* One next() on the generator: the body of chunks up to its next yield.
chunks_next(gen, fs, no_dates) ==
    IF gen.state = "created" /\ gen.path \notin DOMAIN fs
    THEN [gen EXCEPT !.state = "exhausted"]
    ELSE LET got == get_chunk(gen.rows, gen.pos, gen.state = "created",
                              chunk_size(gen.size))
         IN  IF got.kind = "StopIteration" THEN [gen EXCEPT !.state = "exhausted"]
             ELSE IF fix(got, no_dates) # "none"
             THEN [gen EXCEPT !.state = fix(got, no_dates)]
             ELSE [gen EXCEPT !.state = "open", !.pos = @ + got.count,
                              !.batches = Append(@, got.count)]

ChunksNext ==
    /\ out.op = "chunks"
    /\ out.state \in {"created", "open"}
    /\ \E no_dates \in {"none", "AttributeError"} :
          out' = chunks_next(out, files, no_dates)
    /\ UNCHANGED <<remote, zips, infos, files, database>>

InitChunks ==
    /\ remote = BaseRemote
    /\ zips = NoArchives
    /\ infos = NoArchives
    /\ files \in {NoFiles, [f \in {CsvA} |-> 1]}
    /\ database = Absent
    /\ out \in {Generator(CsvA, rows, size) :
                   rows \in 0..MaxRows,
                   size \in {Absent} \cup {Some(s) : s \in 0..MaxChunk}}

SpecChunks == InitChunks /\ [][ChunksNext]_vars

\* S, S, ..., S, N mod S, the last term left out when S divides N.
ExpectedCounts(N, S) ==
    [i \in 1..((N + S - 1) \div S) |-> IF i * S <= N THEN S ELSE N % S]

\* C11: on a CSV of N data rows, chunks(S) with S >= 1 runs to its end
\* without an error and has yielded batches of S, S, ..., S, N mod S rows,
\* the last term left out when S divides N.
C11_ChunkRowCounts ==
    (/\ out.op = "chunks"
     /\ out.path \in DOMAIN files
     /\ out.size # Absent /\ Val(out.size) >= 1
     /\ out.state \notin {"created", "open"})
        => (/\ out.state = "exhausted"
            /\ out.batches = ExpectedCounts(out.rows, Val(out.size)))

----------------------------------------------------------------------------
(* What a run of setup-db loaded.                                          *)

SetupRan == out.op = "setup_database"

\* The call name is among the calls of the run.
Called(name) == \E i \in 1..Len(out.calls) : out.calls[i] = name

\* The primary table exists and the bulk load put the rows of a CSV in it.
CasesLoaded ==
    /\ Val(database).covid_cases # Absent
    /\ Len(Val(Val(database).covid_cases)) = 1

\* The run of setup-db went from the table creation to the catalogs in the
\* order of the handler.
LoadedInOrder ==
    /\ Called("catalogs") =>
          /\ Len(out.calls) >= 4
          /\ SubSeq(out.calls, 1, 4) = <<"extract_covid_data", "create_covid_cases_table",
                                         "save_covid_data", "catalogs">>
          /\ CasesLoaded
    /\ Val(database).catalogs # {} => (Called("save_catalog") /\ CasesLoaded)
    /\ (out.error # "none"
          /\ out.calls[Len(out.calls)] \in {"create_covid_cases_table", "save_covid_data"})
          => (~Called("catalogs") /\ Val(database).catalogs = {})

\* C20 as stated: in every run of setup-db the primary table is created,
\* then the bulk load runs, then the catalogs are loaded; no catalog table
\* exists before the bulk load has succeeded, and no catalog load is tried
\* after a failed creation or bulk load.
C20_LoadingOrder == SetupRan => LoadedInOrder

\* C20 amended: the same, in every run of setup-db that was not given
\* --skip-cases.
C20_LoadingOrderOfCases == (SetupRan /\ ~out.skip_cases) => LoadedInOrder

\* C20 witness: the bulk load failed and the run stopped there, no catalog
\* loaded, although the catalogs directory holds catalogs.
C20_Witness ==
    /\ SetupRan /\ ~out.skip_cases
    /\ out.error = "ConversionException"
    /\ out.calls[Len(out.calls)] = "save_covid_data"
    /\ catalogs(files).pairs # {}
    /\ Val(database).catalogs = {}

\* The database has the table name with the rows of a file of n rows, and
\* no other table of the name.
TableHolds(name, n) ==
    {c \in Val(database).catalogs : c[1] = name} = {<<name, [count |-> n]>>}

\* setup-db ran to its end on the catalogs directory with exactly the .csv
\* files fs.
FullRunOn(fs) ==
    /\ SetupRan /\ out.error = "none"
    /\ {f \in DOMAIN files : "dir" \in DOMAIN f /\ f # CATALOGS_DIR /\ f.suffix = ".csv"} = fs

\* C13 as stated: with sexo_cat.csv, sector_cat.csv and resultado_cat.csv
\* in the catalogs directory, a full run leaves tables named sexo, sector
\* and resultado, each with the rows of its file.
C13_CatalogTablesNamedByCatalog ==
    FullRunOn({SexoCat, SectorCat, ResultadoCat})
        => /\ TableHolds(<<"s", "e", "x", "o">>, files[SexoCat])
           /\ TableHolds(<<"s", "e", "c", "t", "o", "r">>, files[SectorCat])
           /\ TableHolds(<<"r", "e", "s", "u", "l", "t", "a", "d", "o">>,
                         files[ResultadoCat])

\* C13 amended: a full run leaves one table for each .csv file of the
\* catalogs directory, named by the lower-cased file name without its
\* extension (sexo_cat, sector_cat, resultado_cat; origen_cat for
\* ORIGEN_cat.csv), with the rows of the file, and no other catalog table.
C13_CatalogTablesNamedByStem ==
    /\ FullRunOn({SexoCat, SectorCat, ResultadoCat})
          => /\ TableHolds(<<"s", "e", "x", "o", "_", "c", "a", "t">>, files[SexoCat])
             /\ TableHolds(<<"s", "e", "c", "t", "o", "r", "_", "c", "a", "t">>,
                           files[SectorCat])
             /\ TableHolds(<<"r", "e", "s", "u", "l", "t", "a", "d", "o", "_", "c", "a", "t">>,
                           files[ResultadoCat])
             /\ Cardinality(Val(database).catalogs) = 3
    /\ FullRunOn({OrigenCat})
          => /\ TableHolds(<<"o", "r", "i", "g", "e", "n", "_", "c", "a", "t">>,
                           files[OrigenCat])
             /\ Cardinality(Val(database).catalogs) = 1

\* C13 witness: a full run on the three catalogs, and one on ORIGEN_cat.csv
\* which left the table origen_cat.
C13_Witness ==
    /\ FullRunOn({OrigenCat})
    /\ ~out.skip_cases
    /\ CasesLoaded
    /\ TableHolds(<<"o", "r", "i", "g", "e", "n", "_", "c", "a", "t">>, 2)

----------------------------------------------------------------------------
(* Calls on an open database: the DBDataManager methods as the tests call  *)
(* them, between rewrites of the catalog files.                            *)

\* The most bulk loads into one primary table.
MaxLoads == 2

\* A catalog file is written again, with n rows.
CatalogWritten ==
    /\ \E f \in {SexoCat, OrigenCat}, n \in 1..MaxSize :
          files' = [files EXCEPT ![f] = n]
    /\ out' = NoCall
    /\ UNCHANGED <<remote, zips, infos, database>>

CreateCovidCasesTableCall ==
    /\ \E made \in {create_covid_cases_table(Val(database))} :
          /\ database' = Some(made.db)
          /\ out' = [op |-> "create_covid_cases_table", error |-> made.error,
                     before |-> database]
    /\ UNCHANGED <<remote, zips, infos, files>>

SaveCovidDataCall ==
    /\ Val(database).covid_cases # Absent
          => Len(Val(Val(database).covid_cases)) < MaxLoads
    /\ \E rejected \in {"none", "ConversionException"} :
          \E copied \in {save_covid_data(Val(database), CsvA, files, rejected)} :
              /\ database' = Some(copied.db)
              /\ out' = [op |-> "save_covid_data", error |-> copied.error,
                         before |-> database]
    /\ UNCHANGED <<remote, zips, infos, files>>

SaveCatalogCall ==
    /\ \E path \in {SexoCat, OrigenCat, SectorCat},
          unregistered \in {"none", "CatalogException"} :
          \E name \in {LowerText(SexoCat.stem), LowerText(OrigenCat.stem)} :
              \E saved \in {save_catalog(Val(database), name, path, files, unregistered)} :
                  /\ database' = Some(saved.db)
                  /\ out' = [op |-> "save_catalog", error |-> saved.error,
                             name |-> name, path |-> path, before |-> database]
    /\ UNCHANGED <<remote, zips, infos, files>>

SaveCatalogsCall ==
    /\ \E listing \in Listings(catalogs(files).pairs),
          unregistered \in {"none", "CatalogException"} :
          \E saved \in {save_catalogs(Val(database), listing, files, unregistered)} :
              /\ database' = Some(saved.db)
              /\ out' = [op |-> "save_catalogs", error |-> saved.error,
                         before |-> database, listing |-> listing,
                         unregistered |-> unregistered]
    /\ UNCHANGED <<remote, zips, infos, files>>

InitDatabase ==
    /\ remote = BaseRemote
    /\ zips = NoArchives
    /\ infos = NoArchives
    /\ files = [f \in {CATALOGS_DIR, SexoCat, OrigenCat, CsvA} |->
                   IF f = CsvA THEN 1 ELSE CatalogRows(f)]
    /\ database = connect(Absent)
    /\ out = NoCall

NextDatabase ==
    \/ CatalogWritten
    \/ CreateCovidCasesTableCall
    \/ SaveCovidDataCall
    \/ SaveCatalogCall
    \/ SaveCatalogsCall

SpecDatabase == InitDatabase /\ [][NextDatabase]_vars

\* The tables called name in a database.
TablesNamed(db, name) == {c \in Val(db).catalogs : c[1] = name}

\* C12: after save_catalog(name, path) returns, the database has one table
\* called name, with exactly the rows of the CSV at path, whether or not a
\* table of the name existed before and whatever it held.
C12_SaveCatalogReplaces ==
    (out.op = "save_catalog" /\ out.error = "none")
        => TablesNamed(database, out.name) = {<<out.name, [count |-> files[out.path]]>>}

\* C12 witness: save_catalog returned on a name whose table held the rows
\* of another file, with another number of rows.
C12_Witness ==
    /\ out.op = "save_catalog" /\ out.error = "none"
    /\ \E c \in TablesNamed(out.before, out.name) : c[2].count # files[out.path]
    /\ TablesNamed(database, out.name) = {<<out.name, [count |-> files[out.path]]>>}

\* C16: create_covid_cases_table on a database that has the table raises
\* the already-exists error and leaves the table and its rows as they were.
C16_CreateExistingTableFails ==
    (out.op = "create_covid_cases_table" /\ Val(out.before).covid_cases # Absent)
        => (out.error = "CatalogException" /\ database = out.before)

\* C16 witness: the call failed on a table that holds loaded rows, which are
\* still there.
C16_Witness ==
    /\ out.op = "create_covid_cases_table"
    /\ out.error = "CatalogException"
    /\ Val(out.before).covid_cases # Absent
    /\ Len(Val(Val(database).covid_cases)) >= 1

----------------------------------------------------------------------------
(* The sidecar of a primary archive, for archives whose CSV is named after *)
(* various days.                                                           *)

\* DDMMYY texts: days, months and years that make dates, and some that
\* make none.
DatedArchives ==
    LET DayTexts == {<<"0", "1">>, <<"2", "9">>, <<"3", "1">>, <<"0", "0">>}
        MonthTexts == {<<"0", "1">>, <<"0", "2">>, <<"1", "2">>, <<"1", "3">>}
        YearTexts == {<<"0", "0">>, <<"2", "0">>, <<"2", "1">>, <<"6", "8">>,
                      <<"6", "9">>, <<"9", "9">>}
    IN  {<<Member(FileName(d \o m \o y, CSV_SUFFIX), 1)>> :
            d \in DayTexts, m \in MonthTexts, y \in YearTexts}

ExtractCovidDataCall ==
    /\ \E done \in {extract_covid_data(zips.L, infos.L, files, Absent)} :
          /\ zips' = [zips EXCEPT !.L = done.zip]
          /\ infos' = [infos EXCEPT !.L = done.sidecar]
          /\ files' = done.files
          /\ out' = [op |-> "extract_covid_data", k |-> "L",
                     error |-> done.error, info |-> done.info]
    /\ UNCHANGED <<remote, database>>

InitSidecar ==
    /\ \E a \in DatedArchives :
          /\ remote = [BaseRemote EXCEPT
                          !.P = Publication(200, StdHeaders(1), StdHeaders(1), a)]
          /\ zips = [NoArchives EXCEPT !.L = Some(a)]
    /\ infos = NoArchives
    /\ files = NoFiles
    /\ database = Absent
    /\ out = NoCall

SpecSidecar ==
    InitSidecar /\ [][DownloadCovidDataCall \/ ExtractCovidDataCall]_vars

\* The ISO-8601 text of the day a DDMMYY text encodes: YYYY-MM-DD, the years
\* 69 to 99 in the century of 1900.
IsoOfDayMonthYear(p) ==
    (IF p[5] \in {"7", "8", "9"} \/ (p[5] = "6" /\ p[6] = "9")
     THEN <<"1", "9">> ELSE <<"2", "0">>)
        \o <<p[5], p[6], "-", p[3], p[4], "-", p[1], p[2]>>

\* C14: after download_covid_data or extract_covid_data returns on an
\* archive whose CSV is named DDMMYYCOVID19MEXICO.csv, the sidecar beside
\* the archive exists, names that file and carries the ISO-8601 text of the
\* day DDMMYY encodes.
C14_SidecarNamesSource ==
    (/\ out.op \in {"download_covid_data", "extract_covid_data"}
     /\ out.error = "none")
        => LET name == Val(zips[out.k])[1].name
           IN  /\ infos[out.k] # Absent
               /\ infos[out.k] = out.info
               /\ Val(infos[out.k]).source_file_name = Some(name)
               /\ Val(infos[out.k]).source_data_date
                     = Some(IsoOfDayMonthYear(name.prefix))

\* C14 witness: the archive of 31 December 1999 was downloaded, and its
\* sidecar holds the date and the response headers.
C14_Witness ==
    /\ out.op = "download_covid_data" /\ out.error = "none"
    /\ Val(zips.P)[1].name.prefix = <<"3", "1", "1", "2", "9", "9">>
    /\ Val(infos.P).source_data_date
          = Some(<<"1", "9", "9", "9", "-", "1", "2", "-", "3", "1">>)
    /\ Val(infos.P).has_headers

----------------------------------------------------------------------------
(* Sidecar round trip: DataInfo.save followed by DataInfo.from_file. *)

\* One member of the JSON object for a key the dict holds, none otherwise.
Member_of(key, value) == IF value = Absent THEN <<>> ELSE << <<key, Val(value)>> >>

\* json.dump writing the names and the date only.
json_dump_names(info) ==
    Member_of("source_file_name", info.source_file_name)
        \o Member_of("source_data_date", info.source_data_date)
        \o Member_of("descriptors_file_name", info.descriptors_file_name)
        \o Member_of("catalogs_file_name", info.catalogs_file_name)

\* json.dump(self.info): the JSON object with one member per key of the dict.
json_dump(info) ==
    Member_of("source_file_name", info.source_file_name)
        \o Member_of("source_data_date", info.source_data_date)
        \o Member_of("descriptors_file_name", info.descriptors_file_name)
        \o Member_of("catalogs_file_name", info.catalogs_file_name)
        \o (IF info.has_headers THEN << <<"http_headers", info.http_headers>> >>
            ELSE <<>>)

\* dict.get(key, None) on the parsed JSON object.
Lookup(document, key) ==
    IF HasKey(document, key) THEN Some(Get(document, key)) ELSE Absent

\* json.load(fp): the dict of the members of the JSON object.
json_load(document) ==
    [source_file_name |-> Lookup(document, "source_file_name"),
     source_data_date |-> Lookup(document, "source_data_date"),
     descriptors_file_name |-> Lookup(document, "descriptors_file_name"),
     catalogs_file_name |-> Lookup(document, "catalogs_file_name"),
     has_headers |-> HasKey(document, "http_headers"),
     http_headers |-> IF HasKey(document, "http_headers")
                      THEN Get(document, "http_headers") ELSE <<>>]

\* R.save(p): the sidecar file holds the dumped document.
SaveCall ==
    /\ out.op = "new"
    /\ infos' = [infos EXCEPT !.L = Some(json_dump(out.self))]
    /\ out' = [op |-> "save", self |-> out.self]
    /\ UNCHANGED <<remote, zips, files, database>>

\* DataInfo.from_file(p) on the sidecar file.
FromFileCall ==
    /\ out.op = "save"
    /\ infos.L # Absent
    /\ out' = [op |-> "from_file", self |-> out.self,
               loaded |-> from_file(json_load(Val(infos.L)))]
    /\ UNCHANGED <<remote, zips, infos, files, database>>

InitRoundTrip ==
    /\ remote = BaseRemote
    /\ zips = NoArchives
    /\ infos = NoArchives
    /\ files = NoFiles
    /\ database = Absent
    /\ LET \* A record holding content-length twice, in two spellings.
           TwiceSized ==
               DataInfo(Absent, Absent, TRUE,
                        << <<"content-length", <<"1">> >>,
                           <<"Content-Length", <<"2">> >> >>)
       IN  out \in {[op |-> "new", self |-> R] : R \in InfoUniverse \cup {TwiceSized}}

SpecRoundTrip == InitRoundTrip /\ [][SaveCall \/ FromFileCall]_vars

\* The loaded record shows the name, date, headers and size of R.
SameRecord(R, loaded) ==
    /\ loaded.source_file_name = R.source_file_name
    /\ loaded.source_data_date = R.source_data_date
    /\ loaded.has_headers = R.has_headers
    /\ loaded.http_headers = R.http_headers
    /\ source_data_size(loaded) = source_data_size(R)

\* Every header name of the record is in lower case.
LowerNames(info) ==
    \A i \in 1..Len(info.http_headers) :
        Lower(info.http_headers[i][1]) = info.http_headers[i][1]

\* C15 (as stated): for any record R, the record loaded from the sidecar
\* R.save wrote has the name, date, headers and size of R, and when R has a
\* resolvable size the loaded record is not different than R.
C15_RoundTrip ==
    out.op = "from_file" =>
        /\ SameRecord(out.self, out.loaded)
        /\ Resolvable(out.self) =>
               different_than(out.loaded, out.self) = "False"

\* C15 (amended): for any record R whose header names are in lower case,
\* the record loaded from the sidecar R.save wrote has the name, date,
\* headers and size of R, and when R has a resolvable size the loaded
\* record is not different than R.
C15_RoundTripOfLowerNames ==
    (out.op = "from_file" /\ LowerNames(out.self)) =>
        /\ SameRecord(out.self, out.loaded)
        /\ Resolvable(out.self) =>
               different_than(out.loaded, out.self) = "False"

\* C15 witness: a named record with a content-length and another header was
\* saved and loaded, and the loaded record is not different than it.
C15_Witness ==
    /\ out.op = "from_file"
    /\ out.self.source_file_name # Absent
    /\ Resolvable(out.self)
    /\ HasKey(out.self.http_headers, "accept-ranges")
    /\ out.loaded.http_headers = out.self.http_headers
    /\ different_than(out.loaded, out.self) = "False"

----------------------------------------------------------------------------
(* Downloads against a remote whose answers change between calls. *)

SpecRefetch ==
    InitBase /\ [][\/ \E k \in {"P", "S"} : RemotePublish(k)
                   \/ DownloadCovidDataCall
                   \/ DownloadCovidDataSpecCall]_vars

\* The answer is not a success status.
NonSuccess(pub) == pub.status \notin 200..299

----------------------------------------------------------------------------
(* clean_sources over the children of the data directory.  A name is the
   sequence of its parts, a pattern is a sequence of parts where "*" stands
   for any run of parts, and the directory maps each child's name to its
   kind, "file" or "dir". *)

MaxChildren == 3

ZipPattern == <<"datos_abiertos_covid19", "*", ".zip">>

CsvPattern == <<"*", "COVID19MEXICO.csv">>

InfoPattern == <<"*", "COVID19MEXICO.json">>

\* Path.glob's matching of one name against one pattern.
RECURSIVE glob_match(_, _)
glob_match(name, pattern) ==
    IF Len(pattern) = 0 THEN Len(name) = 0
    ELSE IF Head(pattern) = "*"
         THEN \/ glob_match(name, Tail(pattern))
              \/ Len(name) > 0 /\ glob_match(Tail(name), pattern)
    ELSE /\ Len(name) > 0
         /\ Head(name) = Head(pattern)
         /\ glob_match(Tail(name), Tail(pattern))

\* sources_dir.glob(pattern): the children whose names match.
glob(dir, pattern) == {name \in DOMAIN dir : glob_match(name, pattern)}

\* _unlink deleting the child whatever its kind.
unlink_any(dir, child) == [name \in DOMAIN dir \ {child} |-> dir[name]]

\* _unlink(_child): the child is deleted if it is a regular file.
unlink(dir, child) ==
    IF dir[child] = "file"
    THEN [name \in DOMAIN dir \ {child} |-> dir[name]]
    ELSE dir

\* for child in sources_dir.glob(pattern): _unlink(child)
RECURSIVE unlink_all(_, _)
unlink_all(dir, children) ==
    IF children = {} THEN dir
    ELSE LET child == CHOOSE c \in children : TRUE
         IN  unlink_all(unlink(dir, child), children \ {child})

\* DataManager.clean_sources(zip_files, csv_files, info_files)
clean_sources(dir, zip_files, csv_files, info_files) ==
    LET zipped == IF zip_files THEN unlink_all(dir, glob(dir, ZipPattern)) ELSE dir
        csved == IF csv_files THEN unlink_all(zipped, glob(zipped, CsvPattern))
                 ELSE zipped
    IN  IF info_files THEN unlink_all(csved, glob(csved, InfoPattern)) ELSE csved

CleanSources(zip_files, csv_files, info_files) ==
    \E cleaned \in {clean_sources(files, zip_files, csv_files, info_files)} :
        /\ files' = cleaned
        /\ out' = [op |-> "clean_sources", zip_files |-> zip_files,
                   csv_files |-> csv_files, info_files |-> info_files,
                   before |-> files]
        /\ UNCHANGED <<remote, zips, infos, database>>

\* The names a data directory may hold: what the program writes there, and
\* names that differ from the patterns in one part.
ChildNames ==
    {<<"datos_abiertos_covid19", ".zip">>,
     <<"datos_abiertos_covid19", "_old", ".zip">>,
     <<"diccionario_datos_covid19", ".zip">>,
     <<"datos_abiertos_covid19", ".json">>,
     <<"010121", "COVID19MEXICO.csv">>,
     <<"010121", "covid19mexico.csv">>,
     <<"010121", "COVID19MEXICO.csv", ".bak">>,
     <<"010121", "COVID19MEXICO.json">>,
     <<"COVID19MEXICO.json">>}

InitClean ==
    /\ remote = BaseRemote
    /\ zips = NoArchives
    /\ infos = NoArchives
    /\ database = Absent
    /\ out = NoCall
    /\ \E names \in SUBSET ChildNames :
          /\ Cardinality(names) <= MaxChildren
          /\ files \in [names -> {"file", "dir"}]

NextClean ==
    \E zip_files \in BOOLEAN, csv_files \in BOOLEAN, info_files \in BOOLEAN :
        CleanSources(zip_files, csv_files, info_files)

SpecClean == InitClean /\ [][NextClean]_vars

\* The name matches the pattern of a flag the call had set.
MatchesEnabled(name, call) ==
    \/ call.zip_files /\ glob_match(name, ZipPattern)
    \/ call.csv_files /\ glob_match(name, CsvPattern)
    \/ call.info_files /\ glob_match(name, InfoPattern)

\* C18: clean_sources deletes only regular files whose names match the
\* pattern of a flag that is true; every other child of the data directory,
\* directories included, is left in place as it was, and none is added.
C18_CleanDeletesOnlyEnabledFiles ==
    out.op = "clean_sources" =>
        /\ DOMAIN files \subseteq DOMAIN out.before
        /\ \A name \in DOMAIN out.before :
              IF name \in DOMAIN files
              THEN files[name] = out.before[name]
              ELSE out.before[name] = "file" /\ MatchesEnabled(name, out)
        /\ \A name \in DOMAIN out.before :
              (out.before[name] = "dir" \/ ~MatchesEnabled(name, out))
                  => name \in DOMAIN files

\* C18 witness: one call deleted an archive file, kept a directory with a
\* matching name and kept a data file whose flag was false.
C18_Witness ==
    /\ out.op = "clean_sources"
    /\ out.zip_files /\ ~out.csv_files
    /\ \E gone \in DOMAIN out.before \ DOMAIN files : out.before[gone] = "file"
    /\ \E kept \in DOMAIN files :
          files[kept] = "dir" /\ glob_match(kept, ZipPattern)
    /\ \E kept \in DOMAIN files :
          files[kept] = "file" /\ glob_match(kept, CsvPattern)

----------------------------------------------------------------------------
(* Config.from_environ.  A path is the sequence of its components, "/"
   first when it is absolute; an environment is a dict of texts. *)

CATALOGS_DIR_NAME == "catalogs"

DATABASE_NAME == "main-database.sqlite"

DEFAULT_COVID_DATA_URL ==
    "http://datosabiertos.salud.gob.mx/gobmx/salud/datos_abiertos/datos_abiertos_covid19.zip"

\* The home directory of the user and the working directory of the process.
Home == <<"/", "home", "user">>

Cwd == <<"/", "work">>

\* dict.update(other): every item of other is put into the dict.
RECURSIVE dict_update(_, _)
dict_update(environ, other) ==
    IF Len(other) = 0 THEN environ
    ELSE dict_update(Put(environ, Head(other)[1], Head(other)[2]), Tail(other))

\* get_environ with the dotenv file applied after the system environment.
get_environ_dotenv_last(os_environ, dotenv) ==
    dict_update(dict_update(<<>>, os_environ), dotenv)

\* get_environ(): environ.update(dotenv_values(dotenv_file), **os.environ)
get_environ(os_environ, dotenv) ==
    dict_update(dict_update(<<>>, dotenv), os_environ)

\* Path.expanduser(): a leading "~" becomes the home directory.
expanduser(path) ==
    IF Len(path) > 0 /\ Head(path) = "~" THEN Home \o Tail(path) ELSE path

\* Path.resolve(): the path made absolute, with "." and ".." taken out.
RECURSIVE collapse(_, _)
collapse(done, rest) ==
    IF Len(rest) = 0 THEN done
    ELSE IF Head(rest) = "." THEN collapse(done, Tail(rest))
    ELSE IF Head(rest) = ".."
         THEN collapse(IF Len(done) > 1 THEN SubSeq(done, 1, Len(done) - 1) ELSE done,
                       Tail(rest))
    ELSE collapse(Append(done, Head(rest)), Tail(rest))

resolve(path) ==
    IF Len(path) > 0 /\ Head(path) = "/"
    THEN collapse(<<"/">>, Tail(path))
    ELSE collapse(Cwd, path)

\* Config.from_environ() on the dict get_environ() returned.
from_environ(environ) ==
    IF ~HasKey(environ, "DATA_DIR") THEN [error |-> "KeyError", config |-> Absent]
    ELSE LET data_dir == resolve(expanduser(Get(environ, "DATA_DIR")))
             catalogs_dir ==
                 IF ~HasKey(environ, "CATALOGS_DIR")
                 THEN Append(data_dir, CATALOGS_DIR_NAME)
                 ELSE resolve(expanduser(Get(environ, "CATALOGS_DIR")))
             database_path ==
                 IF ~HasKey(environ, "DATABASE")
                 THEN Append(data_dir, DATABASE_NAME)
                 ELSE resolve(expanduser(Get(environ, "DATABASE")))
             covid_data_url ==
                 IF HasKey(environ, "COVID_DATA_URL")
                 THEN Get(environ, "COVID_DATA_URL") ELSE DEFAULT_COVID_DATA_URL
         IN  [error |-> "none",
              config |-> Some([DATA_DIR |-> data_dir, DATABASE |-> database_path,
                               CATALOGS_DIR |-> catalogs_dir,
                               COVID_DATA_URL |-> covid_data_url])]

\* The environments the model enumerates: each variable unset or set.
Environs ==
    {Member_of("DATA_DIR", data_dir) \o Member_of("DATABASE", database_path)
        \o Member_of("CATALOGS_DIR", catalogs_dir) \o Member_of("COVID_DATA_URL", url) :
        data_dir \in {Absent, Some(<<"~", "a-fake-dir">>), Some(<<"tmp", "..", "data">>)},
        database_path \in {Absent, Some(<<"~", "local-database.sqlite">>),
                           Some(<<"/", "srv", ".", "db.sqlite">>)},
        catalogs_dir \in {Absent, Some(<<"~", "..", "shared", "catalogs">>)},
        url \in {Absent, Some("https://docs.python.org/3/library/dataclasses.html")}}

\* Config.from_environ() under the environment and the dotenv file given.
FromEnvironCall ==
    /\ out.op = "environ"
    /\ \E built \in {from_environ(get_environ(out.os_environ, out.dotenv))} :
          out' = [op |-> "from_environ", os_environ |-> out.os_environ,
                  dotenv |-> out.dotenv, error |-> built.error,
                  config |-> built.config]
    /\ UNCHANGED <<remote, zips, infos, files, database>>

InitConfig ==
    /\ remote = BaseRemote
    /\ zips = NoArchives
    /\ infos = NoArchives
    /\ files = NoFiles
    /\ database = Absent
    /\ out \in {[op |-> "environ", os_environ |-> os_environ, dotenv |-> dotenv] :
                    os_environ \in Environs, dotenv \in Environs}

SpecConfig == InitConfig /\ [][FromEnvironCall]_vars

\* The variable is set in the system environment or in the dotenv file.
IsSet(call, name) == HasKey(call.os_environ, name) \/ HasKey(call.dotenv, name)

\* The value of the variable: the system environment's when it is set there.
Effective(call, name) ==
    IF HasKey(call.os_environ, name) THEN Get(call.os_environ, name)
    ELSE Get(call.dotenv, name)

\* An absolute path without "~", "." or ".." components.
IsResolved(path) ==
    /\ Len(path) > 0 /\ Head(path) = "/"
    /\ \A i \in 1..Len(path) : path[i] \notin {"~", ".", ".."}

\* C19: with DATA_DIR set, from_environ returns a configuration whose
\* DATA_DIR and DATABASE are the expanded, resolved paths of the variables of
\* the same name, whose CATALOGS_DIR is DATA_DIR/catalogs when the variable
\* is unset, whose COVID_DATA_URL is the variable's text, each variable read
\* from the system environment when it is set there and from the dotenv file
\* otherwise.
C19_ConfigFromEnviron ==
    (out.op = "from_environ" /\ IsSet(out, "DATA_DIR")) =>
        /\ out.error = "none"
        /\ LET conf == Val(out.config)
           IN  /\ conf.DATA_DIR = resolve(expanduser(Effective(out, "DATA_DIR")))
               /\ IsResolved(conf.DATA_DIR)
               /\ IsSet(out, "DATABASE") =>
                      /\ conf.DATABASE = resolve(expanduser(Effective(out, "DATABASE")))
                      /\ IsResolved(conf.DATABASE)
               /\ ~IsSet(out, "CATALOGS_DIR") =>
                      conf.CATALOGS_DIR = conf.DATA_DIR \o <<"catalogs">>
               /\ IsSet(out, "COVID_DATA_URL") =>
                      conf.COVID_DATA_URL = Effective(out, "COVID_DATA_URL")

\* C19 witness: the environment of the test, with other values of the same
\* variables in the dotenv file, gave the paths under the home directory.
C19_Witness ==
    /\ out.op = "from_environ"
    /\ HasKey(out.os_environ, "DATA_DIR") /\ HasKey(out.dotenv, "DATA_DIR")
    /\ Get(out.os_environ, "DATA_DIR") = <<"~", "a-fake-dir">>
    /\ Get(out.dotenv, "DATA_DIR") = <<"tmp", "..", "data">>
    /\ HasKey(out.os_environ, "DATABASE")
    /\ ~IsSet(out, "CATALOGS_DIR")
    /\ out.error = "none"
    /\ Val(out.config).DATA_DIR = <<"/", "home", "user", "a-fake-dir">>
    /\ Val(out.config).DATABASE = <<"/", "home", "user", "local-database.sqlite">>
    /\ Val(out.config).CATALOGS_DIR = <<"/", "home", "user", "a-fake-dir", "catalogs">>

----------------------------------------------------------------------------
(* save_catalogs over a directory where one catalog cannot be loaded. *)

InitCatalogs ==
    /\ remote = BaseRemote
    /\ zips = NoArchives
    /\ infos = NoArchives
    /\ files \in {[f \in {CATALOGS_DIR} \cup fs |-> CatalogRows(f)] :
                     fs \in {{SexoCat, OrigenCat}, {SexoCat, OrigenCat, DatedCat}}}
    /\ database = connect(Absent)
    /\ out = NoCall

SpecCatalogs == InitCatalogs /\ [][CatalogWritten \/ SaveCatalogsCall]_vars

\* save_catalog on this pair alone raises an error.
FailsAlone(pair, unregistered) == ~IsIdentifier(pair[1]) \/ unregistered # "none"

\* The position in the listing of the first pair that fails, one past the
\* end when none does.
FirstFailure(listing, unregistered) ==
    IF \E i \in 1..Len(listing) : FailsAlone(listing[i], unregistered)
    THEN CHOOSE i \in 1..Len(listing) :
             /\ FailsAlone(listing[i], unregistered)
             /\ \A j \in 1..(i - 1) : ~FailsAlone(listing[j], unregistered)
    ELSE Len(listing) + 1

\* C21: save_catalogs takes the pairs in the order listed and stops at the
\* first failure: every catalog before the failing one is one table holding
\* the rows of its file, no table of the failing one or of a later one is
\* new, and the error of the failing one is the error of the call.
C21_SaveCatalogsStopsAtFirstFailure ==
    out.op = "save_catalogs" =>
        LET k == FirstFailure(out.listing, out.unregistered)
        IN  /\ (out.error = "none") <=> (k > Len(out.listing))
            /\ \A i \in 1..Len(out.listing) :
                  IF i < k
                  THEN TablesNamed(database, out.listing[i][1])
                           = {<<out.listing[i][1], read_csv(files, out.listing[i][2])>>}
                  ELSE TablesNamed(database, out.listing[i][1])
                           \subseteq TablesNamed(out.before, out.listing[i][1])

\* C21 witness: of three catalogs the second failed; the first was replaced
\* by the rows of its rewritten file and the third kept its stale table.
C21_Witness ==
    /\ out.op = "save_catalogs"
    /\ out.error = "ParserException"
    /\ Len(out.listing) = 3
    /\ FirstFailure(out.listing, out.unregistered) = 2
    /\ TablesNamed(database, out.listing[1][1])
           # TablesNamed(out.before, out.listing[1][1])
    /\ TablesNamed(out.before, out.listing[1][1]) # {}
    /\ TablesNamed(database, out.listing[3][1])
           = TablesNamed(out.before, out.listing[3][1])
    /\ TablesNamed(database, out.listing[3][1])
           # {<<out.listing[3][1], read_csv(files, out.listing[3][2])>>}
    /\ TablesNamed(database, out.listing[3][1]) # {}

----------------------------------------------------------------------------
(* Null handling of the two readers of the data file: COVIDData.chunks and
   the COPY of save_covid_data.  A row is a record of the texts of three of
   its cells, the sentinel written in characters and any other cell as one
   word; a value read is Absent when the reader holds no value. *)

NullColumns == {"ID_REGISTRO", "FECHA_DEF", "PAIS_ORIGEN"}

\* The texts pd.read_csv takes as missing in every column (keep_default_na),
\* of which the model writes two.
DefaultNaValues == {"", "NA"}

\* na_values={COVIDDataColumn.FECHA_DEF: "9999-99-99"}
na_values(column) ==
    IF column = "FECHA_DEF" THEN {<<"9", "9", "9", "9", "-", "9", "9", "-", "9", "9">>}
    ELSE {}

\* The value pd.read_csv gives a cell in the frames chunks yields.
chunk_value(column, text) ==
    IF text \in na_values(column) \/ (Len(text) = 1 /\ text[1] \in DefaultNaValues)
    THEN Absent ELSE Some(text)

\* The value COPY ... ( HEADER ) stores for a cell of a TEXT column: NULL
\* for the empty text, the text itself otherwise.
copy_value(column, text) == IF text = <<"">> THEN Absent ELSE Some(text)

\* The first batch of chunks() on the file.
ChunksCall ==
    /\ out.op \in {"written", "save_covid_data"}
    /\ out' = [out EXCEPT !.op = "chunks",
                          !.batch = Some([c \in NullColumns |->
                                             chunk_value(c, files[CsvA][c])])]
    /\ UNCHANGED <<remote, zips, infos, files, database>>

\* save_covid_data on the file, into the table create_covid_cases_table
\* made.
CopyCall ==
    /\ database = Absent
    /\ database' = Some([c \in NullColumns |-> copy_value(c, files[CsvA][c])])
    /\ out' = [out EXCEPT !.op = "save_covid_data"]
    /\ UNCHANGED <<remote, zips, infos, files>>

InitNulls ==
    /\ remote = BaseRemote
    /\ zips = NoArchives
    /\ infos = NoArchives
    /\ files \in {[f \in {CsvA} |-> row] :
                     row \in [ID_REGISTRO : {<<"a1">>, <<"">>},
                              FECHA_DEF : na_values("FECHA_DEF")
                                  \cup {<<"2021-01-05">>, <<"">>, <<"NA">>},
                              PAIS_ORIGEN : {<<"97">>, <<"Cuba">>, <<"">>, <<"NA">>}]}
    /\ database = Absent
    /\ out = [op |-> "written", batch |-> Absent]

SpecNulls == InitNulls /\ [][ChunksCall \/ CopyCall]_vars

\* C22: for every column, a cell is no value in the batch chunks yields
\* exactly when it is NULL in the table after save_covid_data; a FECHA_DEF
\* cell holding 9999-99-99 is no value in both.
C22_PathsAgreeOnNulls ==
    (out.batch # Absent /\ database # Absent) =>
        \A c \in NullColumns :
            (Val(out.batch)[c] = Absent) <=> (Val(database)[c] = Absent)

----------------------------------------------------------------------------
(* Archives with several members ending with COVID19MEXICO.csv. *)

\* The members of the archive whose names end with COVID19MEXICO.csv.
CsvMembers(archive) ==
    {i \in 1..Len(archive) : EndsWith(archive[i].name, CSV_SUFFIX)}

\* C23: on an archive with several members ending with COVID19MEXICO.csv,
\* unzip_covid_data_csv returns the path of the first of them in archive
\* order, that file has the member's size afterwards, and the call writes
\* no file of another member.
C23_FirstMatchingMemberWins ==
    (Unzipped /\ Cardinality(CsvMembers(Val(zips.P))) > 1) =>
        LET first == TheCsv(Val(zips.P))
        IN  /\ out.error = "none"
            /\ out.path = Some(first.name)
            /\ first.name \in DOMAIN files
            /\ files[first.name] = first.file_size
            /\ \A i \in 1..Len(out.wrote) : out.wrote[i] = first.name

\* C23 witness: of two data files in the archive the first in archive order,
\* which carries the later date, was extracted and the other was not.
C23_Witness ==
    /\ Unzipped /\ out.error = "none"
    /\ Len(Val(zips.P)) = 2
    /\ Val(zips.P)[1].name = Csv(2)
    /\ Val(zips.P)[2].name = CsvA
    /\ out.path = Some(Csv(2))
    /\ out.wrote = <<Csv(2)>>
    /\ CsvA \notin DOMAIN files

----------------------------------------------------------------------------
(* DataInfo.save step by step, with a reader of the sidecar and crashes.
   The sidecar file holds the members of the JSON object written so far;
   closed tells whether the object's closing brace is in the file. *)

\* The file as path.open("w") leaves it: truncated to nothing.
Truncated == [members |-> <<>>, closed |-> FALSE]

\* The file of a finished save of the record.
Saved(info) == [members |-> json_dump(info), closed |-> TRUE]

\* DataInfo.from_file on the file as it is: json.load fails on a file that
\* holds no complete object.
load_file(content) ==
    IF ~content.closed THEN [error |-> "JSONDecodeError", info |-> Absent]
    ELSE [error |-> "none", info |-> Some(from_file(json_load(content.members)))]

\* save: path.open("w")
SaveOpen ==
    /\ out.pc = "start"
    /\ infos' = [infos EXCEPT !.L = Some(Truncated)]
    /\ out' = [out EXCEPT !.pc = "writing"]
    /\ UNCHANGED <<remote, zips, files, database>>

\* save: json.dump writes the next member of the object to the file.
SaveWrite ==
    /\ out.pc = "writing"
    /\ Len(Val(infos.L).members) < Len(json_dump(out.self))
    /\ infos' = [infos EXCEPT !.L =
                    Some([Val(@) EXCEPT !.members =
                            Append(@, json_dump(out.self)[Len(@) + 1])])]
    /\ UNCHANGED <<remote, zips, files, database, out>>

\* save: the last of the object is written and the file is closed.
SaveClose ==
    /\ out.pc = "writing"
    /\ Len(Val(infos.L).members) = Len(json_dump(out.self))
    /\ infos' = [infos EXCEPT !.L = Some([Val(@) EXCEPT !.closed = TRUE])]
    /\ out' = [out EXCEPT !.pc = "done"]
    /\ UNCHANGED <<remote, zips, files, database>>

\* The saving process dies; the file stays as it is.
SaveCrash ==
    /\ out.pc = "writing"
    /\ out' = [out EXCEPT !.pc = "crashed"]
    /\ UNCHANGED <<remote, zips, infos, files, database>>

\* Another process calls DataInfo.from_file on the sidecar.
ReadSidecar ==
    /\ out' = [out EXCEPT !.read = load_file(Val(infos.L))]
    /\ UNCHANGED <<remote, zips, infos, files, database>>

InitSave ==
    /\ remote = BaseRemote
    /\ zips = NoArchives
    /\ files = NoFiles
    /\ database = Absent
    /\ LET records ==
               {DataInfo(Absent, Absent, FALSE, <<>>),
                DataInfo(Some(CsvA), Some(isoformat(ParseDayMonthYear(CsvA.prefix))),
                         FALSE, <<>>)}
               \cup {DataInfo(Some(CsvA), Some(isoformat(ParseDayMonthYear(CsvA.prefix))),
                              TRUE, << <<"content-length", <<n>> >> >>) :
                        n \in {"1", "2"}}
       IN  \E old \in records, new \in records :
               /\ infos = [NoArchives EXCEPT !.L = Some(Saved(old))]
               /\ out = [op |-> "save", self |-> new, old |-> old, pc |-> "start",
                         read |-> [error |-> "unread", info |-> Absent]]

SpecSave ==
    InitSave /\ [][SaveOpen \/ SaveWrite \/ SaveClose \/ SaveCrash \/ ReadSidecar]_vars

\* C24: at every point during and after a save over an existing sidecar,
\* from_file on the path returns the complete old record or the complete
\* new one.
C24_SaveIsAtomic ==
    (out.op = "save" /\ out.read.error # "unread") =>
        /\ out.read.error = "none"
        /\ out.read.info \in {Some(from_file(out.old)), Some(from_file(out.self))}

----------------------------------------------------------------------------
(* Two runs of setup-db at once on the same DATA_DIR and DATABASE.  Each
   connection writes to the file it opened, which stays that file after its
   name is unlinked: held[r] is the database file run r has open, path the
   one the DATABASE path names (0 for none), dbs[i] what file i holds. *)

Runs == {1, 2}

\* The unlink held back while another connection has the file open.
unlink_unless_open(path, open_elsewhere) == IF open_elsewhere THEN path ELSE 0

\* if manager.config.DATABASE.exists(): manager.config.DATABASE.unlink()
unlink_database(path, open_elsewhere) == 0

\* duckdb.connect(db_name) by run r: a new file when the path names none, an
\* error when another connection has the file open, the file otherwise.
connect_database(r, path, open_elsewhere) ==
    IF path = 0 THEN [error |-> "none", held |-> r, fresh |-> TRUE]
    ELSE IF open_elsewhere THEN [error |-> "IOException", held |-> 0, fresh |-> FALSE]
    ELSE [error |-> "none", held |-> path, fresh |-> FALSE]

\* The database file the path names has a connection of another run on it.
OpenElsewhere(o, r) ==
    \E q \in Runs \ {r} :
        /\ o.path # 0 /\ o.held[q] = o.path
        /\ o.pc[q] \in {"connected", "extracted", "created", "copied"}

\* The step of run r, its outcome and the file its connection holds.
Stepped(o, r, pc, error, held, path, dbs) ==
    [o EXCEPT !.pc[r] = IF error = "none" THEN pc ELSE "failed",
              !.error[r] = error, !.held[r] = held, !.path = path, !.dbs = dbs,
              !.last = [run |-> r, step |-> pc]]

\* The next statement of setup_database in run r.
RunStep(r) ==
    /\ out.pc[r] \notin {"closed", "failed"}
    /\ LET o == out
           mine == o.dbs[o.held[r]]
           wrote(db) == [o.dbs EXCEPT ![o.held[r]] = db]
       IN  \E next \in
               {CASE o.pc[r] = "start" ->
                       [o |-> Stepped(o, r, "unlinked", "none", 0,
                                      unlink_database(o.path, OpenElsewhere(o, r)),
                                      o.dbs),
                        sidecar |-> infos.L, files |-> files]
                  [] o.pc[r] = "unlinked" ->
                       LET c == connect_database(r, o.path, OpenElsewhere(o, r))
                       IN  [o |-> Stepped(o, r, "connected", c.error, c.held,
                                          IF c.fresh THEN r ELSE o.path,
                                          IF c.fresh
                                          THEN [o.dbs EXCEPT ![r] = EmptyDatabase]
                                          ELSE o.dbs),
                            sidecar |-> infos.L, files |-> files]
                  [] o.pc[r] = "connected" /\ ~o.skip_cases[r] ->
                       LET data == extract_covid_data(zips.L, infos.L, files, Absent)
                       IN  [o |-> Stepped(o, r, "extracted", data.error, o.held[r],
                                          o.path, o.dbs),
                            sidecar |-> data.sidecar, files |-> data.files]
                  [] o.pc[r] = "extracted" ->
                       LET made == create_covid_cases_table(mine)
                       IN  [o |-> Stepped(o, r, "created", made.error, o.held[r],
                                          o.path, wrote(made.db)),
                            sidecar |-> infos.L, files |-> files]
                  [] o.pc[r] = "created" ->
                       LET copied == save_covid_data(mine, SourceFile[1].name,
                                                     files, "none")
                       IN  [o |-> Stepped(o, r, "copied", copied.error, o.held[r],
                                          o.path, wrote(copied.db)),
                            sidecar |-> infos.L, files |-> files]
                  [] OTHER ->
                       LET saved == save_catalogs(
                                        mine,
                                        CHOOSE l \in Listings(catalogs(files).pairs) : TRUE,
                                        files, "none")
                       IN  [o |-> Stepped(o, r, "closed", saved.error, o.held[r],
                                          o.path, wrote(saved.db)),
                            sidecar |-> infos.L, files |-> files]} :
               /\ out' = next.o
               /\ infos' = [infos EXCEPT !.L = next.sidecar]
               /\ files' = next.files
               /\ database' = IF next.o.path = 0 THEN Absent
                              ELSE Some(next.o.dbs[next.o.path])
    /\ UNCHANGED <<remote, zips>>

InitRuns ==
    /\ remote = BaseRemote
    /\ zips = [NoArchives EXCEPT !.L = Some(SourceFile)]
    /\ infos = NoArchives
    /\ files = [f \in {CATALOGS_DIR, SexoCat} |-> CatalogRows(f)]
    /\ database = Absent
    /\ \E skip \in [Runs -> BOOLEAN] :
          out = [op |-> "runs", pc |-> [r \in Runs |-> "start"],
                 skip_cases |-> skip, error |-> [r \in Runs |-> "none"],
                 held |-> [r \in Runs |-> 0], path |-> 0,
                 dbs |-> [i \in Runs |-> EmptyDatabase],
                 last |-> [run |-> 0, step |-> "none"]]

SpecRuns == InitRuns /\ [][\E r \in Runs : RunStep(r)]_vars

\* C25: nothing keeps a run from unlinking the database file while the
\* other run loads it: after the unlink of a run the path names no file,
\* whatever the other run has open.
C25_NoLockBetweenRuns ==
    (out.op = "runs" /\ out.last.step = "unlinked") => database = Absent

\* C25 witness: both runs ended without error, the run that loaded the cases
\* wrote the sidecar of the data file, and the database file at the path is
\* the one of the other run, which holds no cases table.
C25_Witness ==
    /\ out.op = "runs"
    /\ \A r \in Runs : out.pc[r] = "closed" /\ out.error[r] = "none"
    /\ ~out.skip_cases[1] /\ out.skip_cases[2]
    /\ infos.L # Absent
    /\ Val(infos.L).source_file_name = Some(SourceFile[1].name)
    /\ out.dbs[out.held[1]].covid_cases # Absent
    /\ out.held[1] # out.path
    /\ Val(database).covid_cases = Absent

----------------------------------------------------------------------------
(* check-data-updates: cli.check_data_updates, after downloads. *)

\* One of the two halves of check_data_updates, for the archive k: the
\* status printed, or the error of the comparison.
check_archive(zip, differ) ==
    IF zip = Absent THEN [error |-> "none", status |-> "not downloaded", probed |-> FALSE]
    ELSE IF differ = "True" THEN [error |-> "none", status |-> "differs", probed |-> TRUE]
    ELSE IF differ = "False" THEN [error |-> "none", status |-> "up to date", probed |-> TRUE]
    ELSE [error |-> differ, status |-> "none", probed |-> TRUE]

\* check_data_updates(): the primary archive first; the function returns
\* when the archive is not there, and the spec archive comes after it.
check_data_updates(zip_p, differ_p, zip_s, differ_s) ==
    LET primary == check_archive(zip_p, differ_p)
        spec == check_archive(zip_s, differ_s)
    IN  IF primary.error # "none" \/ zip_p = Absent
        THEN [error |-> primary.error, reported |-> << <<"P", primary.status>> >>,
              probed |-> {k \in {"P"} : primary.probed}]
        ELSE [error |-> spec.error,
              reported |-> << <<"P", primary.status>>, <<"S", spec.status>> >>,
              probed |-> {"P"} \cup {k \in {"S"} : spec.probed}]

CheckDataUpdates ==
    /\ \E checked \in {check_data_updates(
                           zips.P, covid_data_differ(infos.P, remote.P),
                           zips.S, covid_data_specs_differ(infos.S, remote.S))} :
          out' = [op |-> "check_data_updates", error |-> checked.error,
                  reported |-> checked.reported, probed |-> checked.probed]
    /\ UNCHANGED <<remote, zips, infos, files, database>>

SpecCheckUpdates ==
    InitBase /\ [][\/ \E k \in {"P", "S"} : RemotePublish(k)
                   \/ \E force \in BOOLEAN : DownloadData(force)
                   \/ CheckDataUpdates]_vars

\* C26: check-data-updates that raises no error reports the status of the
\* spec archive, probing it when it is there, whether or not the primary
\* archive is there; and download-data fetches each archive it reaches
\* exactly when --force is set or that archive's own comparison says so.
C26_ArchivesCheckedIndependently ==
    /\ (out.op = "check_data_updates" /\ out.error = "none") =>
          /\ \E i \in 1..Len(out.reported) : out.reported[i][1] = "S"
          /\ zips.S # Absent => "S" \in out.probed
    /\ out.op = "download_data" =>
          \A k \in {"S", "P"} :
              out.error[k] # "unreached" =>
                  (k \in out.fetched <=>
                      (out.force \/ IF k = "S"
                                    THEN covid_data_specs_differ(out.before.infos.S,
                                                                 remote.S) = "True"
                                    ELSE covid_data_differ(out.before.infos.P,
                                                           remote.P) = "True"))

----------------------------------------------------------------------------
(* Header names of the records the program makes: probes, downloads and
   sidecars read back, a sidecar being a file anyone may have written. *)

\* A sidecar is written by hand, with header names in any letter case.
SidecarWritten ==
    /\ \E name \in {"content-length", "Content-Length", "CONTENT-LENGTH"} :
          infos' = [infos EXCEPT !.L =
                       Some(DataInfo(Absent, Absent, TRUE,
                                     << <<name, <<"1">> >>,
                                        <<"Accept-Ranges", <<"b">> >> >>))]
    /\ out' = NoCall
    /\ UNCHANGED <<remote, zips, files, database>>

\* DataInfo.from_file on the sidecar of one of the archives.
LoadSidecar ==
    /\ \E k \in {"P", "S", "L"} :
          /\ infos[k] # Absent
          /\ out' = [op |-> "from_file", k |-> k, error |-> "none",
                     info |-> Some(from_file(Val(infos[k])))]
    /\ UNCHANGED <<remote, zips, infos, files, database>>

SpecHeaders == InitFetch /\ [][NextFetch \/ SidecarWritten \/ LoadSidecar]_vars

\* normalize_http_headers leaves its own result as it is.
Idempotent(headers) ==
    normalize_http_headers(normalize_http_headers(headers))
        = normalize_http_headers(headers)

\* C27: every record with headers that a probe, a download (an extraction
\* with a response) or from_file returned has header names in lower case
\* only, and normalizing a normalized mapping changes nothing.
C27_HeaderNamesLowerCase ==
    /\ (/\ out.op \in {"remote_covid_data_info", "remote_covid_data_spec_info",
                       "download_covid_data", "download_covid_data_spec", "from_file"}
        /\ out.error = "none")
           => /\ LowerNames(Val(out.info))
              /\ Idempotent(Val(out.info).http_headers)
    /\ \A k \in {"P", "S"} : Idempotent(remote[k].head) /\ Idempotent(remote[k].get)
    /\ \A k \in {"P", "S", "L"} :
          (infos[k] # Absent /\ Val(infos[k]).has_headers)
              => Idempotent(Val(infos[k]).http_headers)

\* C27 witness: a sidecar written with upper-case header names was read
\* back, and the record has the names in lower case.
C27_Witness ==
    /\ out.op = "from_file" /\ out.k = "L"
    /\ HasKey(Val(infos.L).http_headers, "CONTENT-LENGTH")
    /\ HasKey(Val(out.info).http_headers, "content-length")
    /\ HasKey(Val(out.info).http_headers, "accept-ranges")
    /\ LowerNames(Val(out.info))

----------------------------------------------------------------------------
(* setup-db after a download: the sidecar rewritten without a response.     *)

SpecStale ==
    InitBase /\ [][\/ RemotePublish("P")
                   \/ DownloadCovidDataCall
                   \/ \E skip_cases \in BOOLEAN :
                          SetupDatabase("P", skip_cases, "none", "none")
                   \/ CheckDataUpdates]_vars

\* The sidecar of the primary archive is there and carries no headers.
Stale == infos.P # Absent /\ ~Val(infos.P).has_headers

\* The probes a server can answer with.
Probes ==
    {Publication(200, Announced(n, with_length), Announced(n, with_length), Body("P", n)) :
        n \in 1..MaxSize, with_length \in BOOLEAN}

\* The last call was setup-db with the cases, and its extraction returned.
ExtractionReturned ==
    /\ out.op = "setup_database" /\ ~out.skip_cases
    /\ Len(out.calls) > 1

\* C28: an extraction without a response that returns leaves a sidecar
\* without headers, whatever the sidecar held before; while the sidecar has
\* no headers the record loaded from it is different_than every probe and a
\* change check that raises nothing reports the archive as changed; and only
\* a download gives the sidecar its headers back.
C28_ExtractionDropsHeaders ==
    /\ [](ExtractionReturned => Stale)
    /\ [](Stale => \A pub \in Probes :
                       remote_covid_data_info(pub).error = "none" =>
                           different_than(from_file(Val(infos.P)),
                                          Val(remote_covid_data_info(pub).info)) = "True")
    /\ []((Stale /\ out.op = "check_data_updates" /\ out.error = "none"
                 /\ zips.P # Absent)
              => out.reported[1] = <<"P", "differs">>)
    /\ [][(Stale /\ ~Stale') => out'.op = "download_covid_data"]_vars

\* C28 witness: setup-db ran on a downloaded archive whose sidecar had the
\* headers of the download and agreed with the server; the sidecar has no
\* headers now and the comparison says changed.
C28_Witness ==
    /\ ExtractionReturned
    /\ out.before.sidecar # Absent
    /\ Val(out.before.sidecar).has_headers
    /\ covid_data_differ(out.before.sidecar, remote.P) = "False"
    /\ Stale
    /\ covid_data_differ(infos.P, remote.P) = "True"

----------------------------------------------------------------------------
(* extract_covid_data_spec on archives with more spreadsheets than the two
   it names: other .xlsx members, and several members of one ending. *)

\* Most members of a spec archive here.
MaxSpreadsheets == 4

\* "210102 Descriptores_.xlsx", "210102 Catalogos.xlsx"
Descriptors2 == FileName(<<"2", "1", "0", "1", "0", "2", " ">>, DESCRIPTORS_SUFFIX)

Catalogs2 == FileName(<<"2", "1", "0", "1", "0", "2", " ">>, CATALOGS_SUFFIX)

SpreadsheetMembers ==
    {Member(n, size) : n \in {Descriptors, Notes}, size \in 1..MaxSize}
        \cup {Member(n, 1) : n \in {Descriptors2, Catalogs, Catalogs2, Readme}}

\* Every archive of at most MaxSpreadsheets members with distinct names.
SpreadsheetArchives ==
    {a \in UNION {[1..k -> SpreadsheetMembers] : k \in 0..MaxSpreadsheets} :
        \A i \in 1..Len(a), j \in 1..Len(a) : i # j => a[i].name # a[j].name}

\* DATA_DIR at the start: empty, or with spreadsheets of an earlier archive.
InitSpreadsheets ==
    /\ remote = BaseRemote
    /\ zips \in {[NoArchives EXCEPT !.S = Some(a)] : a \in SpreadsheetArchives}
    /\ infos = NoArchives
    /\ files \in {NoFiles,
                  [n \in {Descriptors, Notes} |-> 1],
                  [n \in {Notes, Readme} |-> MaxSize]}
    /\ database = Absent
    /\ out = NoCall

SpecSpreadsheets == InitSpreadsheets /\ [][ExtractSpecCall]_vars

\* The index of the last member of the archive with the ending, 0 if none.
LastEnding(archive, ending) ==
    LET hits == {i \in 1..Len(archive) : archive[i].name.suffix = ending}
    IN  IF hits = {} THEN 0 ELSE CHOOSE i \in hits : \A j \in hits : j <= i

\* The members of the archive named in wrote, in the order of the archive.
WroteInOrder(archive, wrote) ==
    /\ \A i \in 1..Len(wrote) : \E m \in 1..Len(archive) : archive[m].name = wrote[i]
    /\ \A i \in 1..Len(wrote), j \in 1..Len(wrote) :
          i < j => \E m \in 1..Len(archive), n \in 1..Len(archive) :
                       m < n /\ archive[m].name = wrote[i] /\ archive[n].name = wrote[j]

\* C29: a call of extract_covid_data_spec leaves every .xlsx member in
\* DATA_DIR with the member's size, writing exactly those that were not
\* there with that size (neither descriptors nor catalogs included), writes
\* no other member, and when it returns the record returned and saved names
\* the last member of each fixed ending in the order of the archive.
C29_EveryXlsxExtractedLastOneRecorded ==
    [][out'.op = "extract_covid_data_spec" =>
          LET archive == Val(zips.S)
              lastD == LastEnding(archive, DESCRIPTORS_SUFFIX)
              lastC == LastEnding(archive, CATALOGS_SUFFIX)
          IN  /\ \A i \in 1..Len(archive) :
                    IF archive[i].name.suffix \in {".xlsx", DESCRIPTORS_SUFFIX, CATALOGS_SUFFIX}
                    THEN /\ archive[i].name \in DOMAIN files'
                         /\ files'[archive[i].name] = archive[i].file_size
                         /\ (\E w \in 1..Len(out'.wrote) : out'.wrote[w] = archive[i].name)
                                <=> (\/ archive[i].name \notin DOMAIN files
                                     \/ files[archive[i].name] # archive[i].file_size)
                    ELSE /\ archive[i].name \in DOMAIN files' <=> archive[i].name \in DOMAIN files
                         /\ archive[i].name \in DOMAIN files =>
                                files'[archive[i].name] = files[archive[i].name]
                         /\ \A w \in 1..Len(out'.wrote) : out'.wrote[w] # archive[i].name
              /\ WroteInOrder(archive, out'.wrote)
              /\ out'.error = "none" =>
                    /\ lastD > 0 /\ lastC > 0
                    /\ Val(out'.info).descriptors_file_name = Some(archive[lastD].name)
                    /\ Val(out'.info).catalogs_file_name = Some(archive[lastC].name)
                    /\ infos'.S = out'.info
      ]_vars

\* C29 witness: an archive with two descriptors, the later-dated one first,
\* the catalogs and another spreadsheet; the call wrote all four and
\* recorded the descriptors that come last in the archive.
C29_Witness ==
    /\ out.op = "extract_covid_data_spec" /\ out.error = "none"
    /\ zips.S = Some(<<Member(Descriptors2, 1), Member(Notes, 1),
                       Member(Descriptors, 1), Member(Catalogs, 1)>>)
    /\ out.wrote = <<Descriptors2, Notes, Descriptors, Catalogs>>
    /\ Val(out.info).descriptors_file_name = Some(Descriptors)
    /\ infos.S = out.info

----------------------------------------------------------------------------
(* COVIDData.chunks called again: each call makes a new generator, with a
   new reader on the file.  What the .dt accessor does on a frame of no
   rows is a property of the installed pandas, the same in every call. *)

\* One next() on the generator of the last call.
ChunksNextAgain ==
    /\ out.op = "chunks"
    /\ out.state \in {"created", "open"}
    /\ out' = chunks_next(out, files, out.no_dates)
    /\ UNCHANGED <<remote, zips, infos, files, database>>

\* chunks(size) is called again on the same COVIDData once the generator
\* of the call before has come to its end.
ChunksCalledAgain ==
    /\ out.op = "chunks"
    /\ out.state \notin {"created", "open"}
    /\ out.earlier = Absent
    /\ out' = [out EXCEPT !.state = "created", !.pos = 0, !.batches = <<>>,
                          !.earlier = Some(<<out.state, out.batches>>)]
    /\ UNCHANGED <<remote, zips, infos, files, database>>

InitChunksAgain ==
    /\ remote = BaseRemote
    /\ zips = NoArchives
    /\ infos = NoArchives
    /\ files \in {NoFiles, [f \in {CsvA} |-> 1]}
    /\ database = Absent
    /\ out \in {[op |-> "chunks", path |-> CsvA, rows |-> rows, size |-> size,
                 state |-> "created", pos |-> 0, batches |-> <<>>,
                 no_dates |-> no_dates, earlier |-> Absent] :
                   rows \in 0..MaxRows,
                   size \in {Absent} \cup {Some(s) : s \in 0..MaxChunk},
                   no_dates \in {"none", "AttributeError"}}

SpecChunksAgain == InitChunksAgain /\ [][ChunksNextAgain \/ ChunksCalledAgain]_vars

\* The generator of the last call has come to its end.
Finished == out.op = "chunks" /\ out.state \notin {"created", "open"}

\* C30: chunks on a path that does not exist ends without a batch and
\* without an error; with size None or 0 the batches are of 32768 rows, so
\* a file of fewer rows comes as one batch; and a call made again on the
\* same file ends as the call before did, with the same batches.
C30_ChunksDefaultsAndRepeats ==
    /\ \A size \in {Absent, Some(0)} : chunk_size(size) = 32768
    /\ Finished =>
          /\ out.path \notin DOMAIN files =>
                (out.state = "exhausted" /\ out.batches = <<>>)
          /\ (/\ out.path \in DOMAIN files
              /\ out.size \in {Absent, Some(0)}
              /\ out.rows >= 1)
                => (out.state = "exhausted" /\ out.batches = <<out.rows>>)
          /\ out.earlier # Absent => Val(out.earlier) = <<out.state, out.batches>>

\* C30 witness: a second call with size 0 on a file of several rows has
\* come to its end with the one batch the first call yielded.
C30_Witness ==
    /\ Finished
    /\ out.path \in DOMAIN files
    /\ out.size = Some(0)
    /\ out.rows = MaxRows
    /\ out.earlier = Some(<<"exhausted", <<MaxRows>> >>)
    /\ out.batches = <<MaxRows>>

====
